---- MODULE Spec2Model ----
(***************************************************************************)
(* Model of scripts/seed_api_sample_load.py: one run of main(), which      *)
(* registers buyers and sellers over HTTP, writes categories, geo          *)
(* backfills and foods in one PostgreSQL transaction, places orders over   *)
(* HTTP with an Idempotency-Key and a 429 retry loop, and writes a summary *)
(* file.  The HTTP server and the database are the environment: every      *)
(* request may be answered with any status, every statement may raise.     *)
(***************************************************************************)
EXTENDS Integers, Sequences, FiniteSets, TLC

(* ---- bounds of the model: the sizes of a run the command line may ask for ---- *)
MaxOrders == 3         \* buyers * orders_per_buyer, and each of the two counts
MaxFoods == 2          \* sellers * foods_per_seller, and each of the two counts
MaxCategories == 2
MaxDerived == 2
MaxUserIdx == 11
MaxRotationSellers == 3
MaxRotationOrders == 5
MaxLoopBuyers == 3
MaxLoopOrders == 3
MaxCatalogSellers == 2
MaxCatalogCategories == 11
MaxCatalogFoods == 6
MaxFoodSlot == 11
MaxStreamBuyers == 1
MaxStreamSellers == 2
MaxStreamFoods == 2
MaxStreamOrders == 2
MaxRunnerRequests == 2
MaxRunnerSignals == 1
MaxEnvs == 2
KeyProbe == 12

(* ---- program constants ---- *)
MaxRetries == 6
NumCategoryDefs == 5
NumFoodTemplates == 2
NumCities == 10
SellerCityOffset == 100
MaxItemDraw == 3
MaxQuantity == 3
NumNames == 10
URLError == 0
NoStatus == -1
RngModulus == 16

Statuses == {200, 201, 400, 429, 500}
Outcomes == Statuses \cup {URLError}

Seeds == { <<"s", "-", "1">> }

(* states random.seed(seed_id) and the draws of the catalog stage may leave *)
RngStates == {0, 5, 10, 15}

GpsObjects == {"latitude", "longitude", "users_latitude_range_check", "users_longitude_range_check"}

(* ---- helpers ---- *)
Range(s) == { s[k] : k \in 1..Len(s) }

Min(a, b) == IF a < b THEN a ELSE b

RECURSIVE Pow2(_)
Pow2(n) == IF n = 0 THEN 1 ELSE 2 * Pow2(n - 1)

IsInjective(s) == \A p, q \in 1..Len(s) : s[p] = s[q] => p = q

(* str(n) for n >= 0: the decimal digits, most significant first *)
DigitChars == <<"0", "1", "2", "3", "4", "5", "6", "7", "8", "9">>

RECURSIVE Str(_)
Str(n) == IF n < 10 THEN <<DigitChars[n + 1]>>
          ELSE Str(n \div 10) \o <<DigitChars[(n % 10) + 1]>>

(* f"api-seed-order-{seed_id}-{buyer_idx + 1}-{order_idx + 1}" *)
IdemKeyNoOrderIdx(seed_id, b_idx, o_idx) ==
    <<"api-seed-order-">> \o seed_id \o <<"-">> \o Str(b_idx + 1)

IdemKeyNoSeparator(seed_id, b_idx, o_idx) ==
    <<"api-seed-order-">> \o seed_id \o <<"-">> \o Str(b_idx + 1) \o Str(o_idx + 1)

IdemKey(seed_id, b_idx, o_idx) ==
    <<"api-seed-order-">> \o seed_id \o <<"-">> \o Str(b_idx + 1) \o <<"-">> \o Str(o_idx + 1)

(* the request create_order sends on one attempt: headers and payload *)
OrderRequestKeyPerAttempt(buyer_token, seller_id, its, address, idempotency_key, att) ==
    [ authorization |-> buyer_token,
      idempotencyKey |-> idempotency_key \o <<"-">> \o Str(att),
      sellerId |-> seller_id,
      items |-> its,
      deliveryAddress |-> address ]

OrderRequest(buyer_token, seller_id, its, address, idempotency_key, att) ==
    [ authorization |-> buyer_token,
      idempotencyKey |-> idempotency_key,
      sellerId |-> seller_id,
      items |-> its,
      deliveryAddress |-> address ]

(* status == 429 and attempt < max_retries *)
ShouldRetryOffByOne(status, att) == status = 429 /\ att <= MaxRetries

ShouldRetryServerErrors(status, att) == status \in {429, 500} /\ att < MaxRetries

ShouldRetry(status, att) == status = 429 /\ att < MaxRetries

(* wait_s = 2**attempt *)
WaitSLinear(att) == att + 1

WaitS(att) == Pow2(att)

VARIABLES
    args,            \* parsed command line: counts and seed_id
    pc,              \* position of main()
    i,               \* index of the running for-loop of the identity and catalog stages
    buyers, sellers, \* lists of UserAccount
    conn,            \* "none", "open", "closed"
    tx,              \* what the open transaction sees (uncommitted)
    db,              \* what is committed in PostgreSQL
    categories, buyer_geo, seller_geo, foods_by_seller,
    seller_idx, food_idx, rows,
    buyer_idx, order_idx, seller_rotation, items, idem_key, attempt,
    created_orders,
    summary,         \* the output file: absent, partial or written, and the counts in it
    exit_code,       \* process exit status, NoStatus while running
    srvUsers,        \* server: the users it registered (answered 201), with their type
    srvOrders,       \* server: logical orders, one per Idempotency-Key
    requests,        \* history: requests sent by the create_order call in progress
    sleeps,          \* history: wait_s slept by the latest create_order call
    last_status,     \* history: outcome of the latest HTTP request
    orderKeys,       \* history: [b, o, key] for every create_order call
    sentKeys,        \* history: [b, o, key] for every order request sent
    failedAt,        \* history: pc at which the exception was raised
    raised,          \* history: the exception that ended the run
    log,             \* history: counters of registration requests and db statements
    derived          \* what is modelled outside a run of main(): two runs side by side,
                     \* one call of a function on its own, the agent HTTP runner,
                     \* or one set-env invocation of the Coolify CLI
                     \* (empty during a run)

progVars == <<args, pc, i, buyers, sellers, conn, categories, buyer_geo, seller_geo,
              foods_by_seller, seller_idx, food_idx, rows, buyer_idx, order_idx,
              seller_rotation, items, idem_key, attempt, created_orders, summary, exit_code>>
envVars == <<tx, db, srvUsers, srvOrders>>
histVars == <<requests, sleeps, last_status, orderKeys, sentKeys, failedAt, raised, log>>
vars == <<progVars, envVars, histVars, derived>>

(* the parsed body http_json returns with a status *)
ResponseBody(status) == <<"body", status>>

NoException == [ message |-> "none", status |-> NoStatus, body |-> <<>> ]

(* an exception that is not raised from a status: URLError, a database error,
   an OSError of the summary file, "No seller foods created" *)
OtherException == [ message |-> "other", status |-> NoStatus, body |-> <<>> ]

(* RuntimeError(f"{message} status={status} body={body}") *)
RuntimeErrorNoBody(message, status, body) ==
    [ message |-> message, status |-> status, body |-> <<>> ]

RuntimeError(message, status, body) ==
    [ message |-> message, status |-> status, body |-> body ]

NoCounts == [ buyers |-> 0, sellers |-> 0, categories |-> 0, foods |-> 0, orders |-> 0 ]

EmptyDb(schema) == [ schema |-> schema, categories |-> <<>>, backfills |-> <<>>, foods |-> <<>> ]

(* main() before its first request: nothing registered, written or sent *)
Idle ==
    /\ pc = "admin_login"
    /\ i = 0
    /\ buyers = <<>> /\ sellers = <<>>
    /\ conn = "none"
    /\ db \in { EmptyDb({}), EmptyDb(GpsObjects) }
    /\ tx = db
    /\ categories = <<>> /\ buyer_geo = <<>> /\ seller_geo = <<>>
    /\ foods_by_seller = <<>>
    /\ seller_idx = 0 /\ food_idx = 0 /\ rows = <<>>
    /\ buyer_idx = 0 /\ order_idx = 0 /\ seller_rotation = <<>>
    /\ items = <<>> /\ idem_key = <<>> /\ attempt = 0
    /\ created_orders = <<>>
    /\ summary = [ file |-> "absent", counts |-> NoCounts ]
    /\ exit_code = NoStatus
    /\ srvUsers = {}
    /\ srvOrders = <<>>
    /\ requests = <<>> /\ sleeps = <<>>
    /\ last_status = NoStatus
    /\ orderKeys = {} /\ sentKeys = {}
    /\ failedAt = "none"
    /\ raised = NoException
    /\ log = [ registrations |-> 0, statements |-> 0 ]

Init ==
    /\ args \in { a \in [ buyers : 0..MaxOrders, sellers : 0..MaxFoods,
                          categories : 0..MaxCategories,
                          foods_per_seller : 0..MaxFoods,
                          orders_per_buyer : 0..MaxOrders,
                          seed_id : Seeds ] :
                       /\ a.buyers * a.orders_per_buyer <= MaxOrders
                       /\ a.sellers * a.foods_per_seller <= MaxFoods }
    /\ Idle
    /\ derived = <<>>

(* ---- the exception paths of main() and of the __main__ wrapper ---- *)

(* an exception outside the try block: the wrapper prints it and exits 1 *)
RaiseExitsZero ==
    /\ pc' = "failed"
    /\ exit_code' = 0
    /\ failedAt' = pc
    /\ raised' = OtherException

Raise ==
    /\ pc' = "failed"
    /\ exit_code' = 1
    /\ failedAt' = pc
    /\ raised' = OtherException

(* raise RuntimeError(...) after a status that is not the expected one; a
   URLError leaves http_json as it is *)
RaiseStatus(message, status) ==
    /\ pc' = "failed"
    /\ exit_code' = 1
    /\ failedAt' = pc
    /\ raised' = IF status = URLError THEN OtherException
                 ELSE RuntimeError(message, status, ResponseBody(status))

(* an exception inside the try block that leaves main() at once *)
RaiseInBatchNoFinally ==
    /\ pc' = "failed"
    /\ exit_code' = 1
    /\ failedAt' = pc
    /\ raised' = OtherException

(* an exception inside the try block: except -> conn.rollback() *)
RaiseInBatch ==
    /\ pc' = "rollback"
    /\ failedAt' = pc
    /\ raised' = OtherException
    /\ UNCHANGED exit_code

(* conn.autocommit = False *)
AutocommitOn == TRUE

Autocommit == FALSE

(* the effect of one executed statement: visible in the transaction, and
   committed at once only under autocommit *)
Execute(newTx) ==
    /\ tx' = newTx
    /\ db' = IF Autocommit THEN newTx ELSE db
    /\ log' = [log EXCEPT !.statements = @ + 1]

(* conn.rollback(): the transaction's view falls back to the committed data *)
RollbackKeeps(committed, pending) == pending

RollbackResult(committed, pending) == committed

orderLocals == <<buyer_idx, order_idx, seller_rotation, items, idem_key, attempt, created_orders>>
catalogLocals == <<categories, buyer_geo, seller_geo, foods_by_seller, seller_idx, food_idx, rows>>
orderHist == <<requests, sleeps, orderKeys, sentKeys>>

(* ---- identity stage ---- *)

admin_login ==
    /\ pc = "admin_login"
    /\ \E status \in Outcomes :
          /\ last_status' = status
          /\ IF status = 200
                THEN /\ pc' = "register_buyers"
                     /\ UNCHANGED <<exit_code, failedAt, raised>>
                ELSE RaiseStatus("admin login failed", status)
    /\ UNCHANGED <<args, derived, i, buyers, sellers, conn, catalogLocals, orderLocals, summary,
                   envVars, orderHist, log>>

(* UserAccount returned by register_user on a 201; the server assigns the id and the token *)
NewAccount(idx, role) ==
    LET uid == Cardinality(srvUsers) + 1
    IN [ user_id |-> uid, access_token |-> <<"token", uid>>,
         full_name |-> <<role, idx % NumNames>>, index |-> idx ]

register_user(role) ==
    /\ pc = (IF role = "buyer" THEN "register_buyers" ELSE "register_sellers")
    /\ i < (IF role = "buyer" THEN args.buyers ELSE args.sellers)
    /\ \E status \in Outcomes :
          /\ last_status' = status
          /\ log' = [log EXCEPT !.registrations = @ + 1]
          /\ IF status = 201
                THEN /\ LET account == NewAccount(i, role)
                        IN /\ buyers' = IF role = "buyer" THEN Append(buyers, account) ELSE buyers
                           /\ sellers' = IF role = "seller" THEN Append(sellers, account) ELSE sellers
                           /\ srvUsers' = srvUsers \cup
                                  { [ user_id |-> account.user_id, user_type |-> role ] }
                     /\ i' = i + 1
                     /\ UNCHANGED <<pc, exit_code, failedAt, raised>>
                ELSE /\ RaiseStatus("register failed", status)
                     /\ UNCHANGED <<i, buyers, sellers, srvUsers>>
    /\ UNCHANGED <<args, derived, conn, catalogLocals, orderLocals, summary, tx, db, srvOrders, orderHist>>

register_buyers_done ==
    /\ pc = "register_buyers"
    /\ i = args.buyers
    /\ pc' = "register_sellers"
    /\ i' = 0
    /\ UNCHANGED <<args, derived, buyers, sellers, conn, catalogLocals, orderLocals, summary, exit_code,
                   envVars, histVars>>

register_sellers_done ==
    /\ pc = "register_sellers"
    /\ i = args.sellers
    /\ pc' = "open_db"
    /\ i' = 0
    /\ UNCHANGED <<args, derived, buyers, sellers, conn, catalogLocals, orderLocals, summary, exit_code,
                   envVars, histVars>>

(* ---- catalog stage: one transaction ---- *)

open_db ==
    /\ pc = "open_db"
    /\ \/ /\ conn' = "open"
          /\ tx' = db
          /\ pc' = "ensure_gps"
          /\ i' = 0
          /\ UNCHANGED <<exit_code, failedAt, raised>>
       \/ /\ Raise
          /\ UNCHANGED <<conn, tx, i>>
    /\ UNCHANGED <<args, derived, buyers, sellers, catalogLocals, orderLocals, summary, db, srvUsers,
                   srvOrders, orderHist, last_status, log>>

GpsStatements == <<"latitude", "longitude", "users_latitude_range_check", "users_longitude_range_check">>

(* ADD COLUMN IF NOT EXISTS / IF NOT EXISTS (...) THEN ADD CONSTRAINT *)
EnsureObject(schema, k) ==
    IF GpsStatements[k] \in schema THEN schema ELSE schema \cup {GpsStatements[k]}

ensure_user_gps_columns ==
    /\ pc = "ensure_gps"
    /\ \/ /\ Execute([tx EXCEPT !.schema = EnsureObject(@, i + 1)])
          /\ IF i + 1 = Len(GpsStatements)
                THEN pc' = "seed_categories" /\ i' = 0
                ELSE pc' = "ensure_gps" /\ i' = i + 1
          /\ UNCHANGED <<exit_code, failedAt, raised>>
       \/ /\ RaiseInBatch
          /\ UNCHANGED <<tx, db, log, i>>
    /\ UNCHANGED <<args, derived, buyers, sellers, conn, catalogLocals, orderLocals, summary, srvUsers,
                   srvOrders, orderHist, last_status>>

(* the "tr" names of CATEGORY_DEFS; the letters as in the name tables below *)
CATEGORY_DEFS ==
    << <<"C~", "o", "r", "b", "a", "l", "a", "r">>,
       <<"A", "n", "a", " ", "Y", "e", "m", "e", "k", "l", "e", "r">>,
       <<"Z", "e", "y", "t", "i", "n", "y", "a", "g~", "l", "i~", "l", "a", "r">>,
       <<"T", "a", "t", "l", "i~", "l", "a", "r">>,
       <<"I~", "c~", "e", "c", "e", "k", "l", "e", "r">> >>

(* FOOD_TEMPLATES: for every key, the names of its templates *)
FOOD_TEMPLATES ==
    << [ key |-> <<"C~", "o", "r", "b", "a", "l", "a", "r">>,
         names |-> << <<"M", "e", "r", "c", "i", "m", "e", "k", " ", "C~", "o", "r", "b", "a", "s", "i~">>,
                      <<"E", "z", "o", "g", "e", "l", "i", "n", " ", "C~", "o", "r", "b", "a", "s", "i~">> >> ],
       [ key |-> <<"A", "n", "a", " ", "Y", "e", "m", "e", "k", "l", "e", "r">>,
         names |-> << <<"K", "a", "r", "n", "i~", "y", "a", "r", "i~", "k">>,
                      <<"T", "a", "v", "u", "k", " ", "S", "o", "t", "e">> >> ],
       [ key |-> <<"Z", "e", "y", "t", "i", "n", "y", "a", "g~", "l", "i~", "l", "a", "r">>,
         names |-> << <<"Z", "e", "y", "t", "i", "n", "y", "a", "g~", "l", "i~", " ", "F", "a", "s", "u", "l", "y", "e">>,
                      <<"E", "n", "g", "i", "n", "a", "r", " ", "D", "o", "l", "m", "a", "s", "i~">> >> ],
       [ key |-> <<"T", "a", "t", "l", "i~", "l", "a", "r">>,
         names |-> << <<"S", "u~", "t", "l", "a", "c~">>,
                      <<"R", "e", "v", "a", "n", "i">> >> ],
       [ key |-> <<"I~", "c~", "e", "c", "e", "k", "l", "e", "r">>,
         names |-> << <<"A", "y", "r", "a", "n">>,
                      <<"S~", "a", "l", "g", "a", "m">> >> ] >>

(* the text of a name_tr: the template's name, then a blank and the suffix if any *)
NameTrText(nameTr) ==
    CATEGORY_DEFS[nameTr.tpl + 1] \o
        (IF nameTr.suffix = 0 THEN <<>> ELSE <<" ">> \o Str(nameTr.suffix))

(* name_tr of category idx, without the suffix of the later cycles *)
CategoryNameNoSuffix(idx) == [ tpl |-> idx % NumCategoryDefs, suffix |-> 0 ]

(* name_tr of category idx: the template, and the numeric suffix (0: none) *)
CategoryName(idx) ==
    [ tpl |-> idx % NumCategoryDefs,
      suffix |-> IF idx >= NumCategoryDefs THEN idx - NumCategoryDefs + 2 ELSE 0 ]

seed_categories ==
    /\ pc = "seed_categories"
    /\ i < args.categories
    /\ \/ /\ LET row == [ id |-> <<"category", Len(tx.categories) + 1>>,
                          nameTr |-> CategoryName(i), sort_order |-> i ]
             IN /\ Execute([tx EXCEPT !.categories = Append(@, row)])
                /\ categories' = Append(categories, [id |-> row.id, nameTr |-> row.nameTr])
          /\ i' = i + 1
          /\ UNCHANGED <<pc, exit_code, failedAt, raised>>
       \/ /\ RaiseInBatch
          /\ UNCHANGED <<tx, db, log, i, categories>>
    /\ UNCHANGED <<args, derived, buyers, sellers, conn, buyer_geo, seller_geo, foods_by_seller,
                   seller_idx, food_idx, rows, orderLocals, summary, srvUsers, srvOrders,
                   orderHist, last_status>>

seed_categories_done ==
    /\ pc = "seed_categories"
    /\ i = args.categories
    /\ pc' = "backfill_buyers"
    /\ i' = 0
    /\ UNCHANGED <<args, derived, buyers, sellers, conn, catalogLocals, orderLocals, summary, exit_code,
                   envVars, histVars>>

(* user_coordinates(index): the city of the table row index % len(TURKEY_CITY_COORDS) *)
user_coordinates(index) == index % NumCities

backfill_users(role) ==
    /\ pc = (IF role = "buyer" THEN "backfill_buyers" ELSE "backfill_sellers")
    /\ LET users == IF role = "buyer" THEN buyers ELSE sellers
       IN /\ i < Len(users)
          /\ \/ /\ LET user == users[i + 1]
                       geo == [ user_id |-> user.user_id,
                                city |-> user_coordinates(i + (IF role = "seller" THEN SellerCityOffset ELSE 0)),
                                role |-> role ]
                   IN /\ Execute([tx EXCEPT !.backfills = Append(@, geo)])
                      /\ buyer_geo' = IF role = "buyer" THEN Append(buyer_geo, geo) ELSE buyer_geo
                      /\ seller_geo' = IF role = "seller" THEN Append(seller_geo, geo) ELSE seller_geo
                /\ i' = i + 1
                /\ UNCHANGED <<pc, exit_code, failedAt, raised>>
             \/ /\ RaiseInBatch
                /\ UNCHANGED <<tx, db, log, i, buyer_geo, seller_geo>>
    /\ UNCHANGED <<args, derived, buyers, sellers, conn, categories, foods_by_seller, seller_idx,
                   food_idx, rows, orderLocals, summary, srvUsers, srvOrders, orderHist,
                   last_status>>

backfill_buyers_done ==
    /\ pc = "backfill_buyers"
    /\ i = Len(buyers)
    /\ pc' = "backfill_sellers"
    /\ i' = 0
    /\ UNCHANGED <<args, derived, buyers, sellers, conn, catalogLocals, orderLocals, summary, exit_code,
                   envVars, histVars>>

backfill_sellers_done ==
    /\ pc = "backfill_sellers"
    /\ i = Len(sellers)
    /\ pc' = "seed_foods"
    /\ i' = 0
    /\ seller_idx' = 0 /\ food_idx' = 0 /\ rows' = <<>>
    /\ UNCHANGED <<args, derived, buyers, sellers, conn, categories, buyer_geo, seller_geo,
                   foods_by_seller, orderLocals, summary, exit_code, envVars, histVars>>

(* the seller_id bound to the INSERT INTO foods: seller.user_id *)
FoodSellerIdFromIndex(sellerList, s_idx) == s_idx

FoodSellerId(sellerList, s_idx) == sellerList[s_idx + 1].user_id

(* build_food_payload raises KeyError for a name_tr that is not a key of FOOD_TEMPLATES *)
HasFoodTemplates(nameTr) ==
    \E k \in 1..Len(FOOD_TEMPLATES) : FOOD_TEMPLATES[k].key = NameTrText(nameTr)

(* options[(seller_slot + food_slot) % len(options)] and the generated name *)
build_food_payload(nameTr, seller_slot, food_slot) ==
    [ name |-> <<nameTr.tpl, (seller_slot + food_slot) % NumFoodTemplates,
                 seller_slot + 1, food_slot + 1>> ]

seed_foods ==
    /\ pc = "seed_foods"
    /\ seller_idx < Len(sellers)
    /\ food_idx < args.foods_per_seller
    /\ \/ /\ Len(categories) > 0
          /\ LET category == categories[(food_idx % Len(categories)) + 1]
             IN /\ HasFoodTemplates(category.nameTr)
                /\ LET payload == build_food_payload(category.nameTr, seller_idx, food_idx)
                       row == [ id |-> <<"food", Len(tx.foods) + 1>>,
                                sellerId |-> FoodSellerId(sellers, seller_idx),
                                categoryId |-> category.id,
                                name |-> payload.name ]
                   IN /\ Execute([tx EXCEPT !.foods = Append(@, row)])
                      /\ rows' = Append(rows, row)
          /\ food_idx' = food_idx + 1
          /\ UNCHANGED <<pc, exit_code, failedAt, raised>>
       \/ \* ZeroDivisionError, KeyError, or an SQL error of the INSERT
          /\ RaiseInBatch
          /\ UNCHANGED <<tx, db, log, rows, food_idx>>
    /\ UNCHANGED <<args, derived, i, buyers, sellers, conn, categories, buyer_geo, seller_geo,
                   foods_by_seller, seller_idx, orderLocals, summary, srvUsers, srvOrders,
                   orderHist, last_status>>

(* foods_by_seller[seller.user_id] = rows *)
seed_foods_next_seller ==
    /\ pc = "seed_foods"
    /\ seller_idx < Len(sellers)
    /\ food_idx = args.foods_per_seller
    /\ foods_by_seller' = Append(foods_by_seller,
                                 [ seller_id |-> sellers[seller_idx + 1].user_id, rows |-> rows ])
    /\ seller_idx' = seller_idx + 1
    /\ food_idx' = 0
    /\ rows' = <<>>
    /\ UNCHANGED <<args, derived, pc, i, buyers, sellers, conn, categories, buyer_geo, seller_geo,
                   orderLocals, summary, exit_code, envVars, histVars>>

seed_foods_done ==
    /\ pc = "seed_foods"
    /\ seller_idx = Len(sellers)
    /\ pc' = "commit"
    /\ UNCHANGED <<args, derived, i, buyers, sellers, conn, catalogLocals, orderLocals, summary,
                   exit_code, envVars, histVars>>

(* conn.commit(): what the transaction saw becomes the committed data *)
CommitDrops(committed, pending) == committed

CommitResult(committed, pending) == pending

commit ==
    /\ pc = "commit"
    /\ \/ /\ db' = CommitResult(db, tx)
          /\ pc' = "close"
          /\ UNCHANGED <<exit_code, failedAt, raised>>
       \/ /\ RaiseInBatch
          /\ UNCHANGED db
    /\ UNCHANGED <<args, derived, i, buyers, sellers, conn, catalogLocals, orderLocals, summary, tx,
                   srvUsers, srvOrders, orderHist, last_status, log>>

rollback ==
    /\ pc = "rollback"
    /\ db' = RollbackResult(db, tx)
    /\ tx' = db'
    /\ pc' = "close"
    /\ UNCHANGED <<args, derived, i, buyers, sellers, conn, catalogLocals, orderLocals, summary,
                   exit_code, srvUsers, srvOrders, histVars>>

(* where main() continues after the try/finally block when nothing was raised *)
AfterCatalogSkipsOrders == "summary"

AfterCatalog == "orders"

(* finally: conn.close(); then the pending exception, if any, leaves main() *)
close ==
    /\ pc = "close"
    /\ conn' = "closed"
    /\ IF failedAt = "none"
          THEN pc' = AfterCatalog /\ UNCHANGED exit_code
          ELSE pc' = "failed" /\ exit_code' = 1
    /\ UNCHANGED <<args, derived, i, buyers, sellers, catalogLocals, orderLocals, summary, envVars,
                   histVars>>

(* ---- order stage ---- *)

(* [s.user_id for s in sellers if s.user_id in foods_by_seller] *)
SellerIds ==
    LET keys == { foods_by_seller[k].seller_id : k \in 1..Len(foods_by_seller) }
        ids == [ k \in 1..Len(sellers) |-> sellers[k].user_id ]
    IN SelectSeq(ids, LAMBDA u : u \in keys)

(* foods_by_seller[seller_id] *)
FoodsOf(seller_id) ==
    LET k == CHOOSE k \in 1..Len(foods_by_seller) : foods_by_seller[k].seller_id = seller_id
    IN foods_by_seller[k].rows

(* random.sample(population, k): every sequence of k distinct positions *)
SampleWithReplacement(n, k) == [1..k -> 1..n]

Sample(n, k) == { p \in [1..k -> 1..n] : IsInjective(p) }

(* random.sample(seller_ids, k=min(len, orders_per_buyer)), then random.choice
   appended until the rotation has orders_per_buyer entries *)
SellerRotationsWithReplacement(seller_ids, orders_per_buyer) ==
    { [ j \in 1..orders_per_buyer |-> seller_ids[p[j]] ] :
         p \in [1..orders_per_buyer -> 1..Len(seller_ids)] }

SellerRotations(seller_ids, orders_per_buyer) ==
    LET k == Min(Len(seller_ids), orders_per_buyer)
    IN { [ j \in 1..orders_per_buyer |-> seller_ids[p[j]] ] :
            p \in { q \in [1..orders_per_buyer -> 1..Len(seller_ids)] :
                       \A a, b \in 1..k : q[a] = q[b] => a = b } }

(* build_items_for_seller: min(len, randint(1, 3)) sampled foods, quantity randint(1, 3) each *)
build_items_for_seller(seller_foods) ==
    UNION { LET count == Min(Len(seller_foods), draw)
            IN { [ j \in 1..count |-> [ foodId |-> seller_foods[p[j]].id, quantity |-> qty[j] ] ] :
                    p \in Sample(Len(seller_foods), count),
                    qty \in [1..count -> 1..MaxQuantity] } :
            draw \in 1..MaxItemDraw }

(* b_geo = buyer_geo.get(buyer.user_id, {}); the delivery address of one order *)
DeliveryAddress(buyer, o_idx) ==
    LET found == { k \in 1..Len(buyer_geo) : buyer_geo[k].user_id = buyer.user_id }
    IN [ city |-> IF found = {} THEN 0 ELSE buyer_geo[CHOOSE k \in found : TRUE].city,
         line |-> o_idx + 1 ]

orders_begin ==
    /\ pc = "orders"
    /\ IF Len(SellerIds) = 0
          THEN Raise
          ELSE /\ pc' = "buyer_loop"
               /\ UNCHANGED <<exit_code, failedAt, raised>>
    /\ UNCHANGED <<args, derived, i, buyers, sellers, conn, catalogLocals, orderLocals, summary,
                   envVars, orderHist, last_status, log>>

buyer_loop ==
    /\ pc = "buyer_loop"
    /\ buyer_idx < Len(buyers)
    /\ seller_rotation' \in SellerRotations(SellerIds, args.orders_per_buyer)
    /\ order_idx' = 0
    /\ pc' = "order_loop"
    /\ UNCHANGED <<args, derived, i, buyers, sellers, conn, catalogLocals, buyer_idx, items, idem_key,
                   attempt, created_orders, summary, exit_code, envVars, histVars>>

buyer_loop_done ==
    /\ pc = "buyer_loop"
    /\ buyer_idx = Len(buyers)
    /\ pc' = "summary"
    /\ UNCHANGED <<args, derived, i, buyers, sellers, conn, catalogLocals, orderLocals, summary,
                   exit_code, envVars, histVars>>

order_loop ==
    /\ pc = "order_loop"
    /\ order_idx < args.orders_per_buyer
    /\ items' \in build_items_for_seller(FoodsOf(seller_rotation[order_idx + 1]))
    /\ idem_key' = IdemKey(args.seed_id, buyer_idx, order_idx)
    /\ sleeps' = <<>>
    /\ orderKeys' = orderKeys \cup { [ b |-> buyer_idx, o |-> order_idx, key |-> idem_key' ] }
    /\ pc' = "create_order"
    /\ UNCHANGED <<args, derived, i, buyers, sellers, conn, catalogLocals, buyer_idx, order_idx,
                   seller_rotation, attempt, created_orders, summary, exit_code,
                   envVars, requests, last_status, sentKeys, failedAt, raised, log>>

(* for order_idx in range(args.orders_per_buyer): the loop ends after the last index *)
order_loop_done_early ==
    /\ pc = "order_loop"
    /\ order_idx >= args.orders_per_buyer - 1
    /\ order_idx <= args.orders_per_buyer
    /\ buyer_idx' = buyer_idx + 1
    /\ pc' = "buyer_loop"
    /\ UNCHANGED <<args, derived, i, buyers, sellers, conn, catalogLocals, order_idx,
                   seller_rotation, items, idem_key, attempt, created_orders, summary,
                   exit_code, envVars, histVars>>

order_loop_done ==
    /\ pc = "order_loop"
    /\ order_idx = args.orders_per_buyer
    /\ buyer_idx' = buyer_idx + 1
    /\ pc' = "buyer_loop"
    /\ UNCHANGED <<args, derived, i, buyers, sellers, conn, catalogLocals, order_idx, seller_rotation,
                   items, idem_key, attempt, created_orders, summary, exit_code, envVars,
                   histVars>>

(* the server's side of POST /v1/orders: requests carrying a key it has already
   turned into an order collapse onto that order *)
ServerOrders(orders, key, processed) ==
    IF processed /\ key \notin Range(orders) THEN Append(orders, key) ELSE orders

(* whether the server turned the request into an order before answering: it did
   when it answers 201, it may have under any other outcome; for a key it already
   holds the question does not arise *)
ServerProcessed(orders, key, status) ==
    IF status = 201 \/ key \in Range(orders) THEN {TRUE} ELSE BOOLEAN

OrderIdOf(orders, key) == CHOOSE k \in 1..Len(orders) : orders[k] = key

(* create_order, top of the while loop: http_json sends the POST of this attempt *)
create_order_send ==
    /\ pc = "create_order"
    /\ LET buyer == buyers[buyer_idx + 1]
           seller_id == seller_rotation[order_idx + 1]
           req == OrderRequest(buyer.access_token, seller_id, items,
                               DeliveryAddress(buyer, order_idx), idem_key, attempt)
       IN /\ requests' = Append(requests, req)
          /\ sentKeys' = sentKeys \cup { [ b |-> buyer_idx, o |-> order_idx,
                                           key |-> req.idempotencyKey ] }
    /\ pc' = "order_response"
    /\ UNCHANGED <<args, derived, i, buyers, sellers, conn, catalogLocals, orderLocals, summary,
                   exit_code, envVars, sleeps, last_status, orderKeys, failedAt, raised, log>>

(* create_order, rest of the loop body: the status of the attempt decides between
   return, sleep-and-retry and raise.  A call that returned or raised leaves no
   frame behind: its attempt counter and the requests of the call end with it, and
   the locals items and idem_key of main() are dead until the next iteration
   assigns them. *)
create_order_response ==
    /\ pc = "order_response"
    /\ LET buyer == buyers[buyer_idx + 1]
           seller_id == seller_rotation[order_idx + 1]
           key == requests[Len(requests)].idempotencyKey
       IN \E status \in Outcomes :
          \E processed \in ServerProcessed(srvOrders, key, status) :
             /\ srvOrders' = ServerOrders(srvOrders, key, processed)
             /\ last_status' = status
             /\ IF status = 201
                   THEN /\ created_orders' = Append(created_orders,
                               [ orderId |-> OrderIdOf(srvOrders', key),
                                 buyerId |-> buyer.user_id, sellerId |-> seller_id ])
                        /\ order_idx' = order_idx + 1
                        /\ pc' = "order_loop"
                        /\ attempt' = 0
                        /\ items' = <<>> /\ idem_key' = <<>> /\ requests' = <<>>
                        /\ UNCHANGED <<sleeps, exit_code, failedAt, raised>>
                   ELSE IF ShouldRetry(status, attempt)
                   THEN /\ sleeps' = Append(sleeps, WaitS(attempt))
                        /\ attempt' = attempt + 1
                        /\ pc' = "create_order"
                        /\ UNCHANGED <<order_idx, created_orders, items, idem_key, requests,
                                       exit_code, failedAt, raised>>
                   ELSE /\ RaiseStatus("order create failed", status)
                        /\ attempt' = 0
                        /\ items' = <<>> /\ idem_key' = <<>> /\ requests' = <<>>
                        /\ UNCHANGED <<sleeps, order_idx, created_orders>>
    /\ UNCHANGED <<args, derived, i, buyers, sellers, conn, catalogLocals, buyer_idx, seller_rotation,
                   summary, tx, db, srvUsers, orderKeys, sentKeys, log>>

(* ---- summary ---- *)

RECURSIVE CountFoods(_)
CountFoods(fbs) == IF fbs = <<>> THEN 0 ELSE Len(Head(fbs).rows) + CountFoods(Tail(fbs))

(* the counts with the sellers that have foods counted as the foods *)
SummaryCountsFoodLists ==
    [ buyers |-> Len(buyers), sellers |-> Len(sellers), categories |-> Len(categories),
      foods |-> Len(foods_by_seller), orders |-> Len(created_orders) ]

SummaryCounts ==
    [ buyers |-> Len(buyers), sellers |-> Len(sellers), categories |-> Len(categories),
      foods |-> CountFoods(foods_by_seller), orders |-> Len(created_orders) ]

(* main() reaches the summary block, and with it open(args.out, "w"), only by
   falling out of the order loops *)
SummaryReadyOrFailed == pc \in {"summary", "failed"}

SummaryReady == pc = "summary"

write_summary ==
    /\ SummaryReady
    /\ \/ /\ summary' = [ file |-> "written", counts |-> SummaryCounts ]
          /\ pc' = "done"
          /\ exit_code' = 0
          /\ UNCHANGED <<failedAt, raised>>
       \/ \* open() or json.dump raises
          /\ \E f \in {"absent", "partial"} : summary' = [ file |-> f, counts |-> NoCounts ]
          /\ Raise
    /\ UNCHANGED <<args, derived, i, buyers, sellers, conn, catalogLocals, orderLocals, envVars,
                   orderHist, last_status, log>>

(* ---- identity generator: the values main() derives from the seed ---- *)

(* The characters of a text are the elements of a sequence.  The Turkish letters
   are written with a tilde: "c~" is c-cedilla, "g~" soft g, "i~" dotless i,
   "I~" dotted capital I, "o~" o-umlaut, "s~" s-cedilla, "u~" u-umlaut. *)
TURKISH_BUYER_NAMES ==
    << <<"A", "h", "m", "e", "t", " ", "Y", "i~", "l", "m", "a", "z">>,
       <<"M", "e", "h", "m", "e", "t", " ", "D", "e", "m", "i", "r">>,
       <<"A", "l", "i", " ", "K", "a", "y", "a">>,
       <<"C", "a", "n", " ", "A", "y", "d", "i~", "n">>,
       <<"B", "u", "r", "a", "k", " ", "S~", "a", "h", "i", "n">>,
       <<"M", "u", "r", "a", "t", " ", "C~", "e", "l", "i", "k">>,
       <<"E", "m", "r", "e", " ", "A", "r", "s", "l", "a", "n">>,
       <<"D", "e", "n", "i", "z", " ", "K", "o", "c~">>,
       <<"E", "c", "e", " ", "Y", "i~", "l", "d", "i~", "z">>,
       <<"S", "e", "l", "i", "n", " ", "O~", "z", "t", "u~", "r", "k">> >>

TURKISH_SELLER_NAMES ==
    << <<"F", "a", "t", "m", "a", " ", "K", "a", "r", "a", "c", "a">>,
       <<"A", "y", "s~", "e", " ", "G", "u~", "n", "e", "s~">>,
       <<"Z", "e", "y", "n", "e", "p", " ", "A", "k", "s", "o", "y">>,
       <<"E", "l", "i", "f", " ", "T", "u", "r", "a", "n">>,
       <<"M", "e", "r", "v", "e", " ", "E", "r", "d", "e", "m">>,
       <<"H", "a", "k", "a", "n", " ", "I~", "n", "c", "e">>,
       <<"Y", "u", "s", "u", "f", " ", "S", "a", "r", "i~">>,
       <<"H", "a", "s", "a", "n", " ", "U", "c~", "a", "r">>,
       <<"G", "a", "m", "z", "e", " ", "K", "o", "r", "k", "m", "a", "z">>,
       <<"I~", "r", "e", "m", " ", "K", "u", "r", "t">> >>

UpperCase == <<"A", "B", "C", "D", "E", "F", "G", "H", "I", "J", "K", "L", "M",
               "N", "O", "P", "Q", "R", "S", "T", "U", "V", "W", "X", "Y", "Z">>

LowerCase == <<"a", "b", "c", "d", "e", "f", "g", "h", "i", "j", "k", "l", "m",
               "n", "o", "p", "q", "r", "s", "t", "u", "v", "w", "x", "y", "z">>

(* str.translate with the table of normalize_ascii: both cases go to the lower letter *)
normalize_ascii(text) ==
    [ k \in 1..Len(text) |->
        CASE text[k] \in {"c~", "C~"} -> "c"
          [] text[k] \in {"g~", "G~"} -> "g"
          [] text[k] \in {"i~", "I~"} -> "i"
          [] text[k] \in {"o~", "O~"} -> "o"
          [] text[k] \in {"s~", "S~"} -> "s"
          [] text[k] \in {"u~", "U~"} -> "u"
          [] OTHER -> text[k] ]

(* str.lower on the letters that are left *)
lower(text) ==
    [ k \in 1..Len(text) |->
        IF \E j \in 1..Len(UpperCase) : UpperCase[j] = text[k]
           THEN LowerCase[CHOOSE j \in 1..Len(UpperCase) : UpperCase[j] = text[k]]
           ELSE text[k] ]

(* str.replace(old, new) for single characters; new = <<>> removes *)
replace(text, old, new) ==
    IF new = <<>> THEN SelectSeq(text, LAMBDA c : c # old)
    ELSE [ k \in 1..Len(text) |-> IF text[k] = old THEN new[1] ELSE text[k] ]

(* str.split(): the non-empty runs between blanks *)
RECURSIVE split(_, _, _)
split(text, word, parts) ==
    IF text = <<>> THEN (IF word = <<>> THEN parts ELSE Append(parts, word))
    ELSE IF Head(text) = " "
         THEN split(Tail(text), <<>>, IF word = <<>> THEN parts ELSE Append(parts, word))
         ELSE split(Tail(text), Append(word, Head(text)), parts)

RECURSIVE join(_, _)
join(sep, parts) ==
    IF parts = <<>> THEN <<>>
    ELSE IF Len(parts) = 1 THEN parts[1]
    ELSE parts[1] \o <<sep>> \o join(sep, Tail(parts))

slugify_display(text) ==
    LET cleaned == replace(lower(normalize_ascii(text)), "'", <<" ">>)
    IN join("_", split(replace(cleaned, "-", <<" ">>), <<>>, <<>>))

profile_for(index, names) ==
    LET full_name == names[(index % Len(names)) + 1]
    IN [ handle |-> slugify_display(full_name), full_name |-> full_name ]

(* the address without the index of the loop *)
EmailNoIndex(handle, seed_id, idx) ==
    handle \o <<".">> \o seed_id \o <<"@", "coziyoo.local">>

(* f"{handle}.{seed_id}.{i + 1}@coziyoo.local" *)
Email(handle, seed_id, idx) ==
    handle \o <<".">> \o seed_id \o <<".">> \o Str(idx + 1) \o <<"@", "coziyoo.local">>

(* f"{handle}_{seed_id.replace('-', '')}_{i + 1}" *)
DisplayName(handle, seed_id, idx) ==
    handle \o <<"_">> \o replace(seed_id, "-", <<>>) \o <<"_">> \o Str(idx + 1)

(* --seed as parsed: absent (None), or the text given, which may be empty *)
SeedArgs ==
    { [ given |-> FALSE, text |-> <<>> ],
      [ given |-> TRUE, text |-> <<>> ],
      [ given |-> TRUE, text |-> <<"s", "-", "1">> ] }

(* f"{now_stamp()}-{rand_suffix()}": the clock and six draws of the generator,
   which nothing has seeded yet *)
GeneratedSeedIds ==
    { <<"20261104190000", "-", "k3x9q0">>, <<"20261104190001", "-", "p7m2ab">> }

(* seed_id = args.seed or f"...": None and the empty text are both falsy *)
SeedIdOf(seed) ==
    IF seed.given /\ seed.text # <<>> THEN { seed.text } ELSE GeneratedSeedIds

(* what one run derives, in the order main() derives it: the buyers, the sellers,
   then the idempotency key of every (buyer_idx, order_idx) pair *)
DerivationPlan(n_buyers, n_sellers, n_orders) ==
    [ k \in 1..(n_buyers + n_sellers + n_buyers * n_orders) |->
        IF k <= n_buyers THEN [ kind |-> "buyer", idx |-> k - 1, o_idx |-> 0 ]
        ELSE IF k <= n_buyers + n_sellers
             THEN [ kind |-> "seller", idx |-> k - n_buyers - 1, o_idx |-> 0 ]
        ELSE [ kind |-> "order",
               idx |-> (k - n_buyers - n_sellers - 1) \div n_orders,
               o_idx |-> (k - n_buyers - n_sellers - 1) % n_orders ] ]

Derive(seed_id, p) ==
    IF p.kind = "order"
       THEN [ kind |-> p.kind, idx |-> p.idx, o_idx |-> p.o_idx,
              email |-> <<>>, display_name |-> <<>>, handle |-> <<>>, full_name |-> <<>>,
              key |-> IdemKey(seed_id, p.idx, p.o_idx) ]
       ELSE LET prof == profile_for(p.idx, IF p.kind = "buyer" THEN TURKISH_BUYER_NAMES
                                                               ELSE TURKISH_SELLER_NAMES)
            IN [ kind |-> p.kind, idx |-> p.idx, o_idx |-> 0,
                 email |-> Email(prof.handle, seed_id, p.idx),
                 display_name |-> DisplayName(prof.handle, seed_id, p.idx),
                 handle |-> prof.handle, full_name |-> prof.full_name,
                 key |-> <<>> ]

NoArgs == [ buyers |-> 0, sellers |-> 0, categories |-> 0, foods_per_seller |-> 0,
            orders_per_buyer |-> 0, seed_id |-> <<>> ]

(* two runs of main() with the same command line, side by side *)
TwoRunsInit ==
    /\ args = NoArgs
    /\ Idle
    /\ db = EmptyDb(GpsObjects)
    /\ derived \in [ seed : SeedArgs,
                      buyers : 0..MaxDerived, sellers : 0..MaxDerived,
                      orders_per_buyer : 0..MaxDerived,
                      runs : { [ r \in 1..2 |-> [ started |-> FALSE, seed_id |-> <<>>,
                                                  out |-> <<>> ] ] } ]

(* seed_id = args.seed or ... , in run r *)
main_seed_id(r) ==
    /\ ~derived.runs[r].started
    /\ \E sid \in SeedIdOf(derived.seed) :
          derived' = [derived EXCEPT !.runs[r] =
                         [ started |-> TRUE, seed_id |-> sid, out |-> <<>> ]]
    /\ UNCHANGED <<args, progVars, envVars, histVars>>

(* the next email, display name and slug, or the next idempotency key, of run r *)
main_derive(r) ==
    /\ derived.runs[r].started
    /\ LET plan == DerivationPlan(derived.buyers, derived.sellers, derived.orders_per_buyer)
           run == derived.runs[r]
       IN /\ Len(run.out) < Len(plan)
          /\ derived' = [derived EXCEPT !.runs[r].out =
                             Append(@, Derive(run.seed_id, plan[Len(run.out) + 1]))]
    /\ UNCHANGED <<args, progVars, envVars, histVars>>

TwoRunsNext == \E r \in 1..2 : main_seed_id(r) \/ main_derive(r)

TwoRunsSpec == TwoRunsInit /\ [][TwoRunsNext]_vars

(* ---- the email and display name of two users of one run, on their own ---- *)

(* seed ids of one run: a given --seed, or a generated one; with the characters
   that also separate the parts of an email or a display name *)
IdentitySeedIds ==
    { <<"s", "-", "1">>, <<"1">>, <<"1", "_", "1">>, <<"1", ".", "1">>,
      <<"2", "0", "2", "6", "-", "k", "3">> }

(* two passes of the registration loops of main(), each for a buyer or a seller *)
IdentityInit ==
    /\ args = NoArgs
    /\ Idle
    /\ db = EmptyDb(GpsObjects)
    /\ derived \in [ seed_id : IdentitySeedIds,
                      users : [ 1..2 -> [ role : {"buyer", "seller"}, idx : 0..MaxUserIdx ] ],
                      out : { <<>> } ]

(* handle, full_name = profile_for(i, names); email = ...; display_name = ... *)
main_identities ==
    /\ derived.out = <<>>
    /\ derived' = [derived EXCEPT !.out =
          [ k \in 1..2 |->
              LET u == derived.users[k]
                  prof == profile_for(u.idx, IF u.role = "buyer" THEN TURKISH_BUYER_NAMES
                                                                  ELSE TURKISH_SELLER_NAMES)
              IN [ email |-> Email(prof.handle, derived.seed_id, u.idx),
                   display_name |-> DisplayName(prof.handle, derived.seed_id, u.idx),
                   handle |-> prof.handle ] ]]
    /\ UNCHANGED <<args, progVars, envVars, histVars>>

IdentitySpec == IdentityInit /\ [][main_identities]_vars

(* ---- ensure_user_gps_columns called twice on one users table, on its own ---- *)

(* columns and constraints a users table may hold before the call *)
UsersObjects == GpsObjects \cup {"email", "users_pkey"}

(* PostgreSQL adding a column or a constraint: under an IF NOT EXISTS guard an
   object that exists is left alone, without the guard it is an error *)
AlterResult(schema, object, guarded) ==
    IF object \in schema
       THEN [ schema |-> schema, error |-> ~guarded ]
       ELSE [ schema |-> schema \cup {object}, error |-> FALSE ]

(* the statement without its guard *)
EnsureStatementUnguarded(schema, k) == AlterResult(schema, GpsStatements[k], FALSE)

(* statement k of ensure_user_gps_columns: ADD COLUMN IF NOT EXISTS for the two
   columns, IF NOT EXISTS (SELECT ... pg_constraint) THEN ADD CONSTRAINT for the
   two constraints *)
EnsureStatement(schema, k) == AlterResult(schema, GpsStatements[k], TRUE)

EnsureGpsInit ==
    /\ args = NoArgs
    /\ Idle
    /\ db = EmptyDb(GpsObjects)
    /\ derived \in [ start : SUBSET UsersObjects, schema : SUBSET UsersObjects,
                      calls : {0}, stmt : {0}, error : {FALSE}, once : { <<>> } ]
    /\ derived.schema = derived.start

(* cur.execute(...) of the next statement, in the first or in the second call *)
ensure_gps_statement ==
    /\ derived.calls < 2
    /\ ~derived.error
    /\ LET r == EnsureStatement(derived.schema, derived.stmt + 1)
           last == derived.stmt + 1 = Len(GpsStatements)
       IN derived' = [derived EXCEPT
              !.schema = r.schema,
              !.error = r.error,
              !.stmt = IF last THEN 0 ELSE derived.stmt + 1,
              !.calls = IF last /\ ~r.error THEN @ + 1 ELSE @,
              !.once = IF last /\ ~r.error /\ derived.calls = 0 THEN <<r.schema>> ELSE @]
    /\ UNCHANGED <<args, progVars, envVars, histVars>>

EnsureGpsSpec == EnsureGpsInit /\ [][ensure_gps_statement]_vars

(* ---- the order stage of two runs that share seed and counts, with the draws
        of the seeded generator made explicit ---- *)

(* the module-level generator of random after random.seed(seed_id): a state that
   every draw advances, here a small congruential generator *)
RngNext(rng) == (5 * rng + 3) % RngModulus

(* one draw below n *)
Draw(rng, n) == [ value |-> (rng \div 2) % n, rng |-> RngNext(rng) ]

RemoveAt(s, k) == [ j \in 1..(Len(s) - 1) |-> IF j < k THEN s[j] ELSE s[j + 1] ]

(* random.sample(population, k) *)
RECURSIVE random_sample(_, _, _)
random_sample(rng, population, k) ==
    IF k = 0 THEN [ value |-> <<>>, rng |-> rng ]
    ELSE LET d == Draw(rng, Len(population))
             r == random_sample(d.rng, RemoveAt(population, d.value + 1), k - 1)
         IN [ value |-> <<population[d.value + 1]>> \o r.value, rng |-> r.rng ]

(* random.choice(seq) *)
random_choice(rng, seq) ==
    LET d == Draw(rng, Len(seq)) IN [ value |-> seq[d.value + 1], rng |-> d.rng ]

(* random.randint(a, b) *)
random_randint(rng, a, b) ==
    LET d == Draw(rng, b - a + 1) IN [ value |-> a + d.value, rng |-> d.rng ]

(* while len(seller_rotation) < orders_per_buyer: append(random.choice(seller_ids)) *)
RECURSIVE PadRotation(_, _, _, _)
PadRotation(rng, rotation, seller_ids, orders_per_buyer) ==
    IF Len(rotation) >= orders_per_buyer THEN [ value |-> rotation, rng |-> rng ]
    ELSE LET c == random_choice(rng, seller_ids)
         IN PadRotation(c.rng, Append(rotation, c.value), seller_ids, orders_per_buyer)

(* seller_rotation = random.sample(seller_ids, k=min(...)), then the padding *)
DrawnRotation(rng, seller_ids, orders_per_buyer) ==
    LET s == random_sample(rng, seller_ids, Min(Len(seller_ids), orders_per_buyer))
    IN PadRotation(s.rng, s.value, seller_ids, orders_per_buyer)

(* [{"foodId": row["id"], "quantity": random.randint(1, 3)} for row in picked] *)
RECURSIVE DrawnQuantities(_, _, _)
DrawnQuantities(rng, picked, acc) ==
    IF picked = <<>> THEN [ value |-> acc, rng |-> rng ]
    ELSE LET q == random_randint(rng, 1, MaxQuantity)
         IN DrawnQuantities(q.rng, Tail(picked),
                            Append(acc, [ foodId |-> Head(picked).id, quantity |-> q.value ]))

(* build_items_for_seller with the draws in the order the code makes them *)
DrawnItems(rng, seller_foods) ==
    LET c == random_randint(rng, 1, MaxItemDraw)
        picked == random_sample(c.rng, seller_foods, Min(Len(seller_foods), c.value))
    IN DrawnQuantities(picked.rng, picked.value, <<>>)

(* a retry that draws a jitter for its sleep *)
RetryRngJitter(rng) == RngNext(rng)

(* the 429 branch of create_order: wait_s = 2**attempt, time.sleep(wait_s),
   attempt += 1, continue; the generator is not touched *)
RetryRng(rng) == rng

(* the seller ids and the foods of a seller as the catalog stage left them, the
   same in both runs *)
StreamSellerIds(n_sellers) == [ k \in 1..n_sellers |-> k ]

StreamFoods(seller_id, foods_per_seller) ==
    [ j \in 1..foods_per_seller |-> [ id |-> <<"food", seller_id, j>> ] ]

StreamRun(rng) ==
    [ pc |-> "buyer_loop", rng |-> rng, buyer_idx |-> 0, order_idx |-> 0, attempt |-> 0,
      seller_rotation |-> <<>>, items |-> <<>>, submitted |-> <<>>, retries |-> 0 ]

(* both runs enter the order stage with the generator in the same state *)
TwoStreamsInit ==
    /\ args = NoArgs
    /\ Idle
    /\ db = EmptyDb(GpsObjects)
    /\ \E rng \in RngStates, nb \in 1..MaxStreamBuyers, ns \in 1..MaxStreamSellers,
          nf \in 1..MaxStreamFoods, no \in 1..MaxStreamOrders :
          derived = [ seed_id |-> <<"s", "-", "1">>, buyers |-> nb, sellers |-> ns, foods_per_seller |-> nf,
                      orders_per_buyer |-> no,
                      runs |-> [ r \in 1..2 |-> StreamRun(rng) ] ]

(* for buyer_idx, buyer in enumerate(buyers): the rotation of the next buyer *)
stream_buyer_loop(r) ==
    LET run == derived.runs[r]
    IN /\ run.pc = "buyer_loop"
       /\ IF run.buyer_idx = derived.buyers
             THEN derived' = [derived EXCEPT !.runs[r].pc = "done"]
             ELSE LET rot == DrawnRotation(run.rng, StreamSellerIds(derived.sellers),
                                           derived.orders_per_buyer)
                  IN derived' = [derived EXCEPT !.runs[r].pc = "order_loop",
                                                !.runs[r].order_idx = 0,
                                                !.runs[r].seller_rotation = rot.value,
                                                !.runs[r].rng = rot.rng]
       /\ UNCHANGED <<args, progVars, envVars, histVars>>

(* for order_idx in range(orders_per_buyer): the items of the next order *)
stream_order_loop(r) ==
    LET run == derived.runs[r]
    IN /\ run.pc = "order_loop"
       /\ IF run.order_idx = derived.orders_per_buyer
             THEN derived' = [derived EXCEPT !.runs[r].pc = "buyer_loop",
                                             !.runs[r].buyer_idx = @ + 1]
             ELSE LET its == DrawnItems(run.rng,
                                 StreamFoods(run.seller_rotation[run.order_idx + 1],
                                             derived.foods_per_seller))
                  IN derived' = [derived EXCEPT !.runs[r].pc = "create_order",
                                                !.runs[r].items = its.value,
                                                !.runs[r].rng = its.rng]
       /\ UNCHANGED <<args, progVars, envVars, histVars>>

(* one pass of the loop of create_order: the request, and 201 or 429 for answer *)
stream_create_order(r) ==
    LET run == derived.runs[r]
        order == [ b |-> run.buyer_idx, o |-> run.order_idx,
                   sellerId |-> run.seller_rotation[run.order_idx + 1],
                   items |-> run.items,
                   idempotencyKey |-> IdemKey(derived.seed_id, run.buyer_idx, run.order_idx) ]
        sent == IF run.attempt = 0 THEN Append(run.submitted, order) ELSE run.submitted
    IN /\ run.pc = "create_order"
       /\ \E status \in {201, 429} :
             derived' = [derived EXCEPT !.runs[r] =
                IF status = 201
                   THEN [run EXCEPT !.submitted = sent, !.pc = "order_loop",
                                    !.order_idx = @ + 1, !.attempt = 0, !.items = <<>>]
                ELSE IF ShouldRetry(status, run.attempt)
                   THEN [run EXCEPT !.submitted = sent, !.attempt = @ + 1,
                                    !.retries = Min(@ + 1, 1),
                                    !.rng = RetryRng(run.rng)]
                   ELSE [run EXCEPT !.submitted = sent, !.pc = "failed", !.attempt = 0,
                                    !.items = <<>>]]
       /\ UNCHANGED <<args, progVars, envVars, histVars>>

TwoStreamsNext ==
    \E r \in 1..2 : stream_buyer_loop(r) \/ stream_order_loop(r) \/ stream_create_order(r)

TwoStreamsSpec == TwoStreamsInit /\ [][TwoStreamsNext]_vars

(* ---- agent-python/src/agent_http_runner.py: the main thread with the HTTP
        server and the signal handlers, the daemon thread that runs the child
        process, the child, and the clients of the health endpoint ---- *)

HealthPaths == {"/health", "/healthz", "/"}

(* paths a client may ask for *)
RunnerPaths == HealthPaths \cup {"/metrics"}

(* the answer computed from child_proc alone *)
HealthStatusIgnoresExit(child_proc, child) == IF child_proc # "None" THEN 200 ELSE 503

(* running = child_proc is not None and child_proc.poll() is None *)
HealthStatus(child_proc, child) ==
    IF child_proc # "None" /\ child = "running" THEN 200 ELSE 503

(* Handler.do_GET *)
do_GET(path, child_proc, child) ==
    IF path \in HealthPaths THEN HealthStatus(child_proc, child) ELSE 404

NoResponse == [ path |-> "", status |-> NoStatus, child_proc |-> "None", child |-> "none" ]

(* the module is loaded: child_proc = None, stop_event clear, nothing started *)
RunnerInit ==
    /\ args = NoArgs
    /\ Idle
    /\ db = EmptyDb(GpsObjects)
    /\ derived = [ main |-> "start", thread |-> "unstarted", child |-> "none",
                   child_proc |-> "None", stop_event |-> FALSE,
                   inbox |-> <<>>, arrived |-> 0, last |-> NoResponse,
                   signals |-> 0, terminate_calls |-> {} ]

(* the process lives until the main thread leaves the module; the daemon thread
   ends with it *)
RunnerAlive == derived.main # "exited"

(* run_agent_child, statement by statement: Popen starts the child, the result is
   stored in the global child_proc, wait() blocks until the child exited,
   stop_event.set() *)
run_agent_child ==
    /\ RunnerAlive
    /\ \/ /\ derived.thread = "popen"
          /\ derived' = [derived EXCEPT !.child = "running", !.thread = "assign"]
       \/ /\ derived.thread = "assign"
          /\ derived' = [derived EXCEPT !.child_proc = "Popen", !.thread = "wait"]
       \/ /\ derived.thread = "wait"
          /\ derived.child = "exited"
          /\ derived' = [derived EXCEPT !.thread = "set"]
       \/ /\ derived.thread = "set"
          /\ derived' = [derived EXCEPT !.stop_event = TRUE, !.thread = "ended"]
    /\ UNCHANGED <<args, progVars, envVars, histVars>>

(* the child process ends, by itself or after terminate() *)
child_exits ==
    /\ derived.child = "running"
    /\ derived' = [derived EXCEPT !.child = "exited"]
    /\ UNCHANGED <<args, progVars, envVars, histVars>>

(* SIGTERM or SIGINT once the handlers are installed: shutdown() runs in the main
   thread, which then resumes where it was *)
shutdown ==
    /\ RunnerAlive
    /\ derived.main # "start"
    /\ derived.signals < MaxRunnerSignals
    /\ derived' = [derived EXCEPT
          !.signals = @ + 1,
          !.stop_event = TRUE,
          !.terminate_calls =
              IF derived.child_proc # "None" /\ derived.child = "running"
                 THEN @ \cup {derived.child} ELSE @]
    /\ UNCHANGED <<args, progVars, envVars, histVars>>

(* a client connects to the listening socket and sends GET path *)
client_GET ==
    /\ derived.main \in {"loop", "handle_request"}
    /\ derived.arrived < MaxRunnerRequests
    /\ \E path \in RunnerPaths :
          derived' = [derived EXCEPT !.inbox = Append(@, path), !.arrived = @ + 1]
    /\ UNCHANGED <<args, progVars, envVars, histVars>>

(* __main__: the handlers and thread.start(); HTTPServer(...); the loop, whose
   handle_request() blocks until a request has arrived and handles that one
   request; server_close() *)
serve ==
    /\ \/ /\ derived.main = "start"
          /\ derived' = [derived EXCEPT !.main = "bind", !.thread = "popen"]
       \/ /\ derived.main = "bind"
          /\ derived' = [derived EXCEPT !.main = "loop"]
       \/ /\ derived.main = "loop"
          /\ derived' = [derived EXCEPT
                !.main = IF derived.stop_event THEN "server_close" ELSE "handle_request"]
       \/ /\ derived.main = "handle_request"
          /\ derived.inbox # <<>>
          /\ LET path == Head(derived.inbox)
             IN derived' = [derived EXCEPT
                   !.inbox = Tail(@),
                   !.last = [ path |-> path,
                              status |-> do_GET(path, derived.child_proc, derived.child),
                              child_proc |-> derived.child_proc,
                              child |-> derived.child ],
                   !.main = "loop"]
       \/ /\ derived.main = "server_close"
          /\ derived' = [derived EXCEPT !.main = "exited"]
    /\ UNCHANGED <<args, progVars, envVars, histVars>>

RunnerNext == run_agent_child \/ child_exits \/ shutdown \/ client_GET \/ serve

RunnerSpec == RunnerInit /\ [][RunnerNext]_vars

(* both threads are scheduled: a statement that can run eventually runs; clients,
   signals and the end of the child are not owed *)
RunnerFairSpec == RunnerSpec /\ WF_vars(run_agent_child) /\ WF_vars(serve)

(* ---- skills/coolify-app-ops/scripts/coolify_app_ops.py: the set-env command,
        strings as sequences of characters so that lower() does its work ---- *)

(* application lists the server may return for GET /api/v1/applications: two
   distinct names, two names that differ in case only, no application, and a
   name that reads like the uuid of another application *)
ServerApps ==
    { << [uuid |-> <<"u", "1">>, name |-> <<"W", "e", "b">>],
         [uuid |-> <<"u", "2">>, name |-> <<"a", "p", "i">>] >>,
      << [uuid |-> <<"u", "1">>, name |-> <<"W", "e", "b">>],
         [uuid |-> <<"u", "2">>, name |-> <<"w", "e", "b">>] >>,
      << >>,
      << [uuid |-> <<"u", "2">>, name |-> <<"u", "1">>],
         [uuid |-> <<"u", "1">>, name |-> <<"a", "p", "i">>] >> }

(* values of --app *)
AppSelectors == { <<"u", "1">>, <<"W", "E", "B">>, <<"a", "p", "i">>, <<"n", "o">> }

(* values of --key *)
EnvKeyArgs == { <<"D", "B">>, <<"t", "z">> }

(* entries of an env list: a key and a uuid, "" for an entry whose uuid is
   missing, null or empty *)
EnvEntries ==
    [ key : { <<"D", "B">>, <<"d", "b">>, <<"T", "Z">> }, uuid : {"", "e1", "e2"} ]

(* env lists the server may return for GET /api/v1/applications/{uuid}/envs *)
ServerEnvs == UNION { [1..n -> EnvEntries] : n \in 0..MaxEnvs }

(* _request: the decoded body is returned, or RuntimeError is raised for an
   HTTPError or a URLError *)
RequestOutcomes == {"ok", "RuntimeError"}

NoApp == [uuid |-> <<>>, name |-> <<>>]

(* resolve_app on the list returned by applications(): the first application
   with that uuid, else the only application with that name whatever the case;
   "not_found" and "ambiguous" are the two RuntimeErrors *)
resolve_app(apps, selector) ==
    LET byUuid == { k \in 1..Len(apps) : apps[k].uuid = selector }
        matches == SelectSeq(apps, LAMBDA a : lower(a.name) = lower(selector))
    IN IF byUuid # {}
          THEN [error |-> "none", app |-> apps[CHOOSE k \in byUuid : \A j \in byUuid : k <= j]]
       ELSE IF Len(matches) = 1 THEN [error |-> "none", app |-> matches[1]]
       ELSE IF matches = <<>> THEN [error |-> "not_found", app |-> NoApp]
       ELSE [error |-> "ambiguous", app |-> NoApp]

NoEnv == [key |-> <<>>, uuid |-> ""]

(* the first entry with exactly that key *)
pick_env_by_key_exact(envs, key) ==
    LET hits == SelectSeq(envs, LAMBDA env : env.key = key)
    IN IF hits = <<>> THEN NoEnv ELSE hits[1]

(* pick_env_by_key: the first entry whose key is the key whatever the case, or None *)
pick_env_by_key(envs, key) ==
    LET hits == SelectSeq(envs, LAMBDA env : lower(env.key) = lower(key))
    IN IF hits = <<>> THEN NoEnv ELSE hits[1]

(* the methods update_env tries, in order *)
UpdateMethods == <<"PATCH", "PUT">>

(* a request as the server sees it, with what _request made of the answer *)
Sent(method, app_uuid, env_uuid, outcome) ==
    [method |-> method, app |-> app_uuid, env |-> env_uuid, outcome |-> outcome]

(* main() has parsed set-env --app selector --key key; base_url and token may be
   missing; nothing is sent yet *)
SetEnvInit ==
    /\ args = NoArgs
    /\ Idle
    /\ db = EmptyDb(GpsObjects)
    /\ \E apps \in ServerApps, selector \in AppSelectors, key \in EnvKeyArgs,
          configured \in BOOLEAN :
          derived = [ pc |-> "ensure_client", configured |-> configured,
                      selector |-> selector, key |-> key, apps |-> apps,
                      app_uuid |-> <<>>, listed |-> FALSE, envs |-> <<>>,
                      existing |-> NoEnv, method |-> 1, sent |-> <<>>,
                      action |-> "none", rc |-> NoStatus ]

(* except RuntimeError in main: the error is printed, return 1 *)
SetEnvError(d) == [d EXCEPT !.pc = "error", !.rc = 1]

(* ensure_client *)
ensure_client ==
    /\ derived.pc = "ensure_client"
    /\ derived' = IF derived.configured
                     THEN [derived EXCEPT !.pc = "resolve_app"]
                     ELSE SetEnvError(derived)
    /\ UNCHANGED <<args, progVars, envVars, histVars>>

(* app = client.resolve_app(args.app); app_uuid = str(app["uuid"]) *)
set_env_resolve_app ==
    /\ derived.pc = "resolve_app"
    /\ \E outcome \in RequestOutcomes :
          LET d == [derived EXCEPT !.sent = Append(@, Sent("GET", <<>>, "", outcome))]
              found == resolve_app(derived.apps, derived.selector)
          IN derived' = IF outcome = "ok" /\ found.error = "none"
                           THEN [d EXCEPT !.app_uuid = found.app.uuid, !.pc = "app_envs"]
                           ELSE SetEnvError(d)
    /\ UNCHANGED <<args, progVars, envVars, histVars>>

(* envs = client.app_envs(app_uuid); existing = pick_env_by_key(envs, args.key);
   the branch on existing and existing.get("uuid") *)
set_env_app_envs ==
    /\ derived.pc = "app_envs"
    /\ \E outcome \in RequestOutcomes, envs \in ServerEnvs :
          LET d == [derived EXCEPT
                      !.sent = Append(@, Sent("GET", derived.app_uuid, "", outcome))]
              existing == pick_env_by_key(envs, derived.key)
          IN derived' = IF outcome = "ok"
                           THEN [d EXCEPT !.listed = TRUE, !.envs = envs,
                                          !.existing = existing,
                                          !.pc = IF existing # NoEnv /\ existing.uuid # ""
                                                    THEN "update_env" ELSE "create_env"]
                           ELSE SetEnvError(d)
    /\ UNCHANGED <<args, progVars, envVars, histVars>>

(* one round of the loop of update_env: the request with the next method; its
   result is returned, or the RuntimeError is kept and the loop goes on; after
   the last method the last error is raised *)
update_env ==
    /\ derived.pc = "update_env"
    /\ \E outcome \in RequestOutcomes :
          LET d == [derived EXCEPT
                      !.sent = Append(@, Sent(UpdateMethods[derived.method], derived.app_uuid,
                                              derived.existing.uuid, outcome))]
          IN derived' = IF outcome = "ok"
                           THEN [d EXCEPT !.action = "updated", !.rc = 0, !.pc = "done"]
                        ELSE IF derived.method < Len(UpdateMethods)
                           THEN [d EXCEPT !.method = @ + 1]
                        ELSE SetEnvError(d)
    /\ UNCHANGED <<args, progVars, envVars, histVars>>

(* create_env and the "created" output *)
create_env ==
    /\ derived.pc = "create_env"
    /\ \E outcome \in RequestOutcomes :
          LET d == [derived EXCEPT
                      !.sent = Append(@, Sent("POST", derived.app_uuid, "", outcome))]
          IN derived' = IF outcome = "ok"
                           THEN [d EXCEPT !.action = "created", !.rc = 0, !.pc = "done"]
                           ELSE SetEnvError(d)
    /\ UNCHANGED <<args, progVars, envVars, histVars>>

SetEnvNext ==
    ensure_client \/ set_env_resolve_app \/ set_env_app_envs \/ update_env \/ create_env

SetEnvSpec == SetEnvInit /\ [][SetEnvNext]_vars

(* ---- coordinates: user_coordinates and the UPDATE of backfill_users ---- *)

(* (city, lat, lon) of the table, lat and lon in units of 0.0001 degree, in the
   order of the table: Istanbul, Ankara, Izmir, Bursa, Antalya, Adana, Konya,
   Gaziantep, Kayseri, Trabzon *)
TURKEY_CITY_COORDS ==
    << [ lat |-> 410082, lon |-> 289784 ],
       [ lat |-> 399334, lon |-> 328597 ],
       [ lat |-> 384237, lon |-> 271428 ],
       [ lat |-> 401950, lon |-> 290600 ],
       [ lat |-> 368969, lon |-> 307133 ],
       [ lat |-> 370000, lon |-> 353213 ],
       [ lat |-> 378746, lon |-> 324932 ],
       [ lat |-> 370662, lon |-> 373833 ],
       [ lat |-> 387225, lon |-> 354875 ],
       [ lat |-> 410015, lon |-> 397178 ] >>

(* one unit of the table is 1000 units of 0.0000001 degree, the unit of lat + jitter *)
TableUnit == 1000

(* random.uniform(-0.03, 0.03), in units of 0.0000001 degree *)
JitterMax == 300000

(* the draws of random.uniform the model follows step by step: both ends, zero,
   and draws that round(x, 6) moves *)
JitterDraws == { -JitterMax, -5, 0, 4, JitterMax }

(* round(x, 6): from units of 0.0000001 degree to the nearest 0.000001 degree *)
round6Unscaled(x) == x

round6(x) == (x + 5) \div 10

(* user_coordinates(index) with the two draws of random.uniform given *)
Coordinates(index, jitter_lat, jitter_lon) ==
    LET base == TURKEY_CITY_COORDS[user_coordinates(index) + 1]
    IN [ city |-> user_coordinates(index),
         latitude |-> round6(base.lat * TableUnit + jitter_lat),
         longitude |-> round6(base.lon * TableUnit + jitter_lon) ]

(* the index backfill_users passes to user_coordinates *)
CoordinateIndex(idx, role) == idx + (IF role = "seller" THEN SellerCityOffset ELSE 0)

(* one user of one call of backfill_users, on its own *)
CoordInit ==
    /\ args = NoArgs
    /\ Idle
    /\ db = EmptyDb(GpsObjects)
    /\ derived \in [ role : {"buyer", "seller"}, idx : 0..MaxUserIdx, geo : { <<>> } ]

(* city, lat, lon = user_coordinates(...); the UPDATE writes lat and lon *)
backfill_coordinates ==
    /\ derived.geo = <<>>
    /\ \E jitter_lat, jitter_lon \in JitterDraws :
          derived' = [derived EXCEPT !.geo =
              << Coordinates(CoordinateIndex(derived.idx, derived.role),
                             jitter_lat, jitter_lon) >>]
    /\ UNCHANGED <<args, progVars, envVars, histVars>>

CoordSpec == CoordInit /\ [][backfill_coordinates]_vars

(* ---- the seller rotation of one buyer, on its own ---- *)

(* the first statements of the buyer loop, for any number of sellers with foods
   and any number of orders per buyer *)
RotationInit ==
    /\ args = NoArgs
    /\ Idle
    /\ db = EmptyDb(GpsObjects)
    /\ derived \in [ seller_ids : { [ k \in 1..n |-> k ] : n \in 1..MaxRotationSellers },
                      orders_per_buyer : 0..MaxRotationOrders,
                      drawn : { FALSE },
                      seller_rotation : { <<>> } ]

(* seller_rotation = random.sample(...); while len(...) < orders_per_buyer: append *)
main_seller_rotation ==
    /\ ~derived.drawn
    /\ \E rotation \in SellerRotations(derived.seller_ids, derived.orders_per_buyer) :
          derived' = [derived EXCEPT !.drawn = TRUE, !.seller_rotation = rotation]
    /\ UNCHANGED <<args, progVars, envVars, histVars>>

RotationSpec == RotationInit /\ [][main_seller_rotation]_vars

(* ---- the dish names of two foods of one category, on their own ---- *)

(* the dish name without the slots of the seller and of the food *)
FoodNameTextNoSlots(name) == FOOD_TEMPLATES[name[1] + 1].names[name[2] + 1]

(* f"{base['name']} ({seller_slot + 1}-{food_slot + 1})" *)
FoodNameText(name) ==
    FOOD_TEMPLATES[name[1] + 1].names[name[2] + 1]
        \o <<" ", "(">> \o Str(name[3]) \o <<"-">> \o Str(name[4]) \o <<")">>

(* two calls of build_food_payload with the name of one of the five categories *)
FoodNamesInit ==
    /\ args = NoArgs
    /\ Idle
    /\ db = EmptyDb(GpsObjects)
    /\ derived \in [ tpl : 0..(NumCategoryDefs - 1),
                      seller_slots : (0..MaxFoodSlot) \X (0..MaxFoodSlot),
                      food_slots : (0..MaxFoodSlot) \X (0..MaxFoodSlot),
                      names : { <<>> } ]

(* payload = build_food_payload(category["nameTr"], seller_idx, food_idx), twice *)
build_food_names ==
    /\ derived.names = <<>>
    /\ LET nameTr == [ tpl |-> derived.tpl, suffix |-> 0 ]
       IN derived' = [derived EXCEPT !.names =
              [ k \in 1..2 |->
                  FoodNameText(build_food_payload(nameTr, derived.seller_slots[k],
                                                  derived.food_slots[k]).name) ]]
    /\ UNCHANGED <<args, progVars, envVars, histVars>>

FoodNamesSpec == FoodNamesInit /\ [][build_food_names]_vars

Next ==
    \/ admin_login
    \/ register_user("buyer")
    \/ register_buyers_done
    \/ register_user("seller")
    \/ register_sellers_done
    \/ open_db
    \/ ensure_user_gps_columns
    \/ seed_categories
    \/ seed_categories_done
    \/ backfill_users("buyer")
    \/ backfill_buyers_done
    \/ backfill_users("seller")
    \/ backfill_sellers_done
    \/ seed_foods
    \/ seed_foods_next_seller
    \/ seed_foods_done
    \/ commit
    \/ rollback
    \/ close
    \/ orders_begin
    \/ buyer_loop
    \/ buyer_loop_done
    \/ order_loop
    \/ order_loop_done
    \/ create_order_send
    \/ create_order_response
    \/ write_summary

Spec == Init /\ [][Next]_vars

(* the runs of main() that register no buyer and place no order, with more
   categories than CATEGORY_DEFS has templates and more foods per seller *)
CatalogInit ==
    /\ args \in [ buyers : {0}, sellers : 0..MaxCatalogSellers,
                   categories : 0..MaxCatalogCategories,
                   foods_per_seller : 0..MaxCatalogFoods,
                   orders_per_buyer : {0}, seed_id : Seeds ]
    /\ Idle
    /\ derived = <<>>

(* the steps main() can take without a buyer *)
CatalogNext ==
    \/ admin_login
    \/ register_buyers_done
    \/ register_user("seller")
    \/ register_sellers_done
    \/ open_db
    \/ ensure_user_gps_columns
    \/ seed_categories
    \/ seed_categories_done
    \/ backfill_buyers_done
    \/ backfill_users("seller")
    \/ backfill_sellers_done
    \/ seed_foods
    \/ seed_foods_next_seller
    \/ seed_foods_done
    \/ commit
    \/ rollback
    \/ close
    \/ orders_begin
    \/ buyer_loop_done
    \/ write_summary

CatalogSpec == CatalogInit /\ [][CatalogNext]_vars

(* the runs of main() with one seller, one category and one food, and every
   number of buyers and of orders per buyer up to the bounds: the order loops
   over both indexes *)
OrderLoopsInit ==
    /\ args \in [ buyers : 0..MaxLoopBuyers, sellers : {1}, categories : {1},
                   foods_per_seller : {1}, orders_per_buyer : 0..MaxLoopOrders,
                   seed_id : Seeds ]
    /\ Idle
    /\ derived = <<>>

OrderLoopsSpec == OrderLoopsInit /\ [][Next]_vars

TypeOK ==
    /\ pc \in {"admin_login", "register_buyers", "register_sellers", "open_db", "ensure_gps",
               "seed_categories", "backfill_buyers", "backfill_sellers", "seed_foods",
               "commit", "rollback", "close", "orders", "buyer_loop", "order_loop",
               "create_order", "order_response", "summary", "done", "failed"}
    /\ conn \in {"none", "open", "closed"}
    /\ attempt \in 0..MaxRetries
    /\ exit_code \in {NoStatus, 0, 1}

(* ======================================================================= *)
(* Properties                                                              *)
(* ======================================================================= *)

InCreateOrder == pc \in {"create_order", "order_response"}

BatchPcs == {"ensure_gps", "seed_categories", "backfill_buyers", "backfill_sellers",
             "seed_foods", "commit"}

(* no category, food or backfill row of the run in a database state *)
DbRowsEmpty(d) == d.categories = <<>> /\ d.foods = <<>> /\ d.backfills = <<>>

(* the whole catalog batch of the run in a database state *)
DbComplete(d) ==
    /\ Len(d.categories) = args.categories
    /\ Len(d.backfills) = args.buyers + args.sellers
    /\ Len(d.foods) = args.sellers * args.foods_per_seller

(* C1: every INSERT into foods carries as seller_id the user_id of a seller whose
   registration was answered 201 earlier in the run, and no food is inserted
   before every seller registration of the run has succeeded. *)
C1_FoodSellerRegistered ==
    \A k \in 1..Len(tx.foods) :
        /\ [ user_id |-> tx.foods[k].sellerId, user_type |-> "seller" ] \in srvUsers
        /\ Len(sellers) = args.sellers
        /\ log.registrations = args.buyers + args.sellers

C1_Witness ==
    /\ Len(tx.foods) >= 2
    /\ tx.foods[1].sellerId # tx.foods[2].sellerId

(* C2: the catalog batch is atomic.  What is committed is at every moment either
   nothing of the run or the whole batch (so the commit follows the last food
   insert), and a run that failed inside the batch, whichever statement failed,
   leaves no category, no food and no backfill committed. *)
C2_BatchAtomic ==
    /\ DbRowsEmpty(db) \/ DbComplete(db)
    /\ failedAt \in BatchPcs => DbRowsEmpty(db)
    /\ ~DbRowsEmpty(db) => Len(tx.foods) = args.sellers * args.foods_per_seller

(* the run failed on its second food insert, after categories and backfills *)
C2_Witness ==
    /\ pc = "failed"
    /\ failedAt = "seed_foods"
    /\ CountFoods(foods_by_seller) + Len(rows) = 1
    /\ Len(categories) >= 1
    /\ Len(seller_geo) >= 1
    /\ conn = "closed"

(* C3: all HTTP attempts of one create_order call carry the same Idempotency-Key,
   the same buyer token and the same body; they are the arguments of the call. *)
C3_SameRequestEveryAttempt ==
    \A k \in 1..Len(requests) :
        /\ requests[k] = requests[1]
        /\ requests[k].idempotencyKey = idem_key
        /\ requests[k].authorization = buyers[buyer_idx + 1].access_token
        /\ requests[k].sellerId = seller_rotation[order_idx + 1]
        /\ requests[k].items = items

C3_Witness ==
    /\ Len(requests) >= 3
    /\ last_status = 429
    /\ Len(items) >= 1

(* C4: the sleep before the k-th retry (k = 0, 1, 2, ...) is 2^k seconds: the first
   is 1 second and each further one is the double of the one before, hence the
   delays strictly increase; one sleep precedes every retry. *)
C4_BackoffDoubles ==
    /\ Len(sleeps) >= 1 => sleeps[1] = 1
    /\ \A k \in 1..(Len(sleeps) - 1) :
          sleeps[k + 1] = 2 * sleeps[k] /\ sleeps[k + 1] > sleeps[k]
    /\ InCreateOrder => Len(sleeps) = attempt

C4_Witness ==
    /\ Len(sleeps) = MaxRetries
    /\ sleeps[MaxRetries] = 32

(* the run is sequential and every call blocks until it is answered: a step that
   can be taken is eventually taken *)
FairSpec == Spec /\ WF_vars(Next)

(* C5: create_order terminates.  One call sends at most max_retries + 1 requests
   and sleeps at most max_retries times, each pass of its loop sending exactly
   one request; a 429 is retried only below the ceiling, so the 429 answered to
   the request sent at the ceiling raises; and every call is eventually left. *)
C5_RetriesBounded ==
    /\ [](/\ attempt <= MaxRetries
          /\ Len(requests) <= MaxRetries + 1
          /\ Len(sleeps) <= MaxRetries
          /\ (pc = "create_order" => Len(requests) = attempt)
          /\ (pc = "order_response" => Len(requests) = attempt + 1))
    /\ [][(pc = "order_response" /\ attempt = MaxRetries /\ last_status' = 429)
             => pc' = "failed"]_vars
    /\ (InCreateOrder ~> ~InCreateOrder)

(* the 429 that answers the request sent at the ceiling ended the run *)
C5_Witness ==
    /\ pc = "failed"
    /\ failedAt = "order_response"
    /\ last_status = 429
    /\ Len(sleeps) = MaxRetries

(* C6: in create_order a status other than 201 and 429, also after 429 retries,
   raises at once: the step that receives it ends the run with no sleep, and a
   run that ended takes no further step, so no further request is sent. *)
C6_OtherStatusTerminal ==
    /\ [][(pc = "order_response" /\ last_status' \notin {201, 429})
             => (pc' = "failed" /\ exit_code' = 1 /\ sleeps' = sleeps /\ sentKeys' = sentKeys)]_vars
    /\ [][pc # "failed"]_vars

C6_Witness ==
    /\ pc = "failed"
    /\ failedAt = "order_response"
    /\ last_status = 500
    /\ Len(sleeps) >= 2

(* C7: the idempotency keys passed to create_order in one run are pairwise
   distinct, and the key format maps different (buyerIndex, orderIndex) pairs to
   different keys for all indexes up to KeyProbe. *)
C7_KeysDistinct ==
    /\ \A x, y \in orderKeys : x.key = y.key => (x.b = y.b /\ x.o = y.o)
    /\ pc = "orders" =>
          Cardinality({ IdemKey(args.seed_id, b, o) : b, o \in 0..KeyProbe })
             = (KeyProbe + 1) * (KeyProbe + 1)

C7_Witness ==
    /\ Cardinality(orderKeys) >= 3
    /\ pc = "done"

(* C8: with a server that keeps one logical order per Idempotency-Key, the
   requests sent for one (buyerIndex, orderIndex) pair never account for more than
   one logical order, whatever 429 answers occurred, and a run that succeeded
   leaves exactly buyers * orders_per_buyer logical orders. *)
C8_OneOrderPerPair ==
    /\ \A x \in sentKeys :
          Cardinality({ k \in Range(srvOrders) :
                          [ b |-> x.b, o |-> x.o, key |-> k ] \in sentKeys }) <= 1
    /\ pc = "done" => Len(srvOrders) = args.buyers * args.orders_per_buyer

C8_Witness ==
    /\ pc = "done"
    /\ Len(srvOrders) = 3
    /\ Len(sleeps) >= 1

(* the Coordinator's stage: 0 Idle, 1 IdentitiesCreated, 2 CatalogSeeded,
   3 OrdersPlaced, 4 SummaryWritten; a failed run stays in the stage it failed in *)
StageAt(p, committed) ==
    CASE p \in {"admin_login", "register_buyers", "register_sellers"} -> 0
      [] p \in BatchPcs \cup {"open_db", "rollback"} -> 1
      [] p = "close" -> IF committed THEN 2 ELSE 1
      [] p \in {"orders", "buyer_loop", "order_loop", "create_order", "order_response"} -> 2
      [] p = "summary" -> 3
      [] p = "done" -> 4

Stage == IF pc = "failed" THEN StageAt(failedAt, FALSE) ELSE StageAt(pc, failedAt = "none")

(* C9: the stage only moves forward, one stage at a time: a registration request is
   issued only before the catalog transaction, a database statement (or any change
   of the transaction or of the committed data) occurs only in the catalog stage
   and before the first order request, an order request only after the connection
   is closed, and the summary is written only after the last order. *)
C9_StagesForward ==
    [][/\ Stage' \in {Stage, Stage + 1}
       /\ (log.registrations' # log.registrations =>
              (Stage = 0 /\ conn = "none" /\ log.statements = 0))
       /\ ((log.statements' # log.statements \/ db' # db \/ tx' # tx) =>
              (Stage = 1 /\ conn = "open" /\ sentKeys = {}))
       /\ (sentKeys' # sentKeys => (Stage = 2 /\ conn = "closed"))
       /\ (summary' # summary =>
              (Stage = 3 /\ Len(created_orders) = args.buyers * args.orders_per_buyer))
       /\ (Stage' = 4 <=> summary'.file = "written")]_vars

C9_Witness ==
    /\ Stage = 4
    /\ Len(created_orders) >= 2
    /\ Len(db.foods) >= 2
    /\ log.registrations >= 3

(* C10, as stated: after a run that failed at any stage, no category, food or
   backfill written by the run remains in the database. *)
C10_AnyFailureRollsBack == pc = "failed" => DbRowsEmpty(db)

(* C10, amended: a run that failed during registration or inside the catalog batch
   (up to and including the commit) leaves nothing of the run in the database;
   a run that failed later leaves the whole committed batch there, the connection
   being closed: nothing is rolled back after the commit. *)
C10_RollbackOnlyBeforeCommit ==
    /\ (pc \in {"failed", "close"} /\ Stage <= 1) => (DbRowsEmpty(db) /\ tx = db)
    /\ (pc = "failed" /\ Stage >= 2) => (DbComplete(db) /\ conn = "closed")

C10_Witness ==
    /\ pc = "failed"
    /\ failedAt = "order_response"
    /\ Len(db.foods) >= 1
    /\ Len(db.categories) >= 1
    /\ Len(db.backfills) >= 2

(* C11: the summary file is opened for writing at most once per run, and only by
   the step that follows the last order: admin login, every registration, the
   catalog commit and every order submission have succeeded by then.  A run that
   failed at an earlier step has never opened the file, and a run that ended
   takes no further step. *)
C11_SummaryOnceAtEnd ==
    /\ [][summary' # summary =>
             /\ pc = "summary" /\ failedAt = "none"
             /\ summary.file = "absent"
             /\ Len(buyers) = args.buyers /\ Len(sellers) = args.sellers
             /\ log.registrations = args.buyers + args.sellers
             /\ DbComplete(db) /\ conn = "closed"
             /\ Len(created_orders) = args.buyers * args.orders_per_buyer
             /\ pc' \in {"done", "failed"}]_vars
    /\ [](summary.file # "absent" =>
             (pc \in {"done", "failed"} /\ failedAt \in {"none", "summary"}))
    /\ []((pc = "failed" /\ failedAt # "summary") => summary.file = "absent")
    /\ [][pc \notin {"done", "failed"}]_vars

(* the summary of a run with orders and foods was written *)
C11_Witness ==
    /\ summary.file = "written"
    /\ summary.counts.orders >= 2
    /\ summary.counts.foods >= 1
    /\ summary.counts.buyers >= 1

(* C12: two runs given the same --seed and the same counts derive identical
   emails, display names, slugs and idempotency keys for every buyer index,
   seller index and (buyer_idx, order_idx) pair they both reach. *)
C12_SameSeedSameValues ==
    derived.seed.given =>
        \A k \in 1..Min(Len(derived.runs[1].out), Len(derived.runs[2].out)) :
            derived.runs[1].out[k] = derived.runs[2].out[k]

(* what holds: with a non-empty --seed both runs use it as seed_id and derive the
   same values *)
C12_NonEmptySeedSameValues ==
    (derived.seed.given /\ derived.seed.text # <<>>) =>
        /\ \A r \in 1..2 : derived.runs[r].started =>
                                derived.runs[r].seed_id = derived.seed.text
        /\ \A k \in 1..Min(Len(derived.runs[1].out), Len(derived.runs[2].out)) :
               derived.runs[1].out[k] = derived.runs[2].out[k]

(* C13: every entity is created after its referent is confirmed.  Every geo
   backfill UPDATE names a user whose registration was answered 201 (the server
   holds the user, with the role of the list it was backfilled from); an order
   request is sent only when the catalog transaction is committed and the
   connection closed; and every food an order request references is a committed
   food of the seller the request names, never one that is uncommitted or was
   rolled back. *)
C13_ReferentsConfirmed ==
    /\ \A k \in 1..Len(tx.backfills) :
          [ user_id |-> tx.backfills[k].user_id, user_type |-> tx.backfills[k].role ] \in srvUsers
    /\ (sentKeys # {} \/ requests # <<>>) =>
          (conn = "closed" /\ DbComplete(db) /\ tx = db /\ failedAt \notin BatchPcs)
    /\ \A k \in 1..Len(requests) :
          \A j \in 1..Len(requests[k].items) :
             \E f \in 1..Len(db.foods) :
                /\ db.foods[f].id = requests[k].items[j].foodId
                /\ db.foods[f].sellerId = requests[k].sellerId

(* an order request with two foods was sent after buyer and seller were backfilled *)
C13_Witness ==
    /\ Len(requests) >= 1
    /\ Len(requests[1].items) = 2
    /\ Len(db.backfills) >= 2
    /\ \E k \in 1..Len(db.backfills) : db.backfills[k].role = "buyer"

(* degrees in units of 0.000001 degree, the unit of the written values *)
Degrees(d) == d * 1000000

(* C14: for every user index and both roles, the latitude and longitude that
   user_coordinates computes and backfill_users writes satisfy
   -90 <= latitude <= 90 and -180 <= longitude <= 180, and lie within 0.03 degree
   of the city's base coordinate.  Checked for the values written, and for every
   jitter of the interval in steps of 0.000001 degree. *)
C14_CoordinatesInRange ==
    LET base == TURKEY_CITY_COORDS[user_coordinates(CoordinateIndex(derived.idx, derived.role)) + 1]
        InRange(g) ==
            /\ Degrees(-90) <= g.latitude /\ g.latitude <= Degrees(90)
            /\ Degrees(-180) <= g.longitude /\ g.longitude <= Degrees(180)
            /\ g.latitude - base.lat * 100 \in -30000..30000
            /\ g.longitude - base.lon * 100 \in -30000..30000
    IN /\ \A k \in 1..Len(derived.geo) : InRange(derived.geo[k])
       /\ derived.geo = <<>> =>
             \A j \in -30000..30000 :
                InRange(Coordinates(CoordinateIndex(derived.idx, derived.role), j * 10, -(j * 10)))

(* a seller past the end of the city table got the largest jitter on its latitude *)
C14_Witness ==
    /\ derived.geo # <<>>
    /\ derived.role = "seller"
    /\ derived.idx >= 10
    /\ derived.geo[1].latitude = TURKEY_CITY_COORDS[derived.geo[1].city + 1].lat * 100 + 30000
    /\ derived.geo[1].longitude < TURKEY_CITY_COORDS[derived.geo[1].city + 1].lon * 100

(* the run of the example: 2 categories, 1 seller, 2 foods per seller, 1 buyer,
   1 order per buyer *)
ExampleRun ==
    /\ args.categories = 2 /\ args.sellers = 1 /\ args.foods_per_seller = 2
    /\ args.buyers = 1 /\ args.orders_per_buyer = 1

OrderStagePcs == {"orders", "buyer_loop", "order_loop", "create_order", "order_response",
                  "summary", "done"}

(* in the example run the seller has exactly 2 foods once the catalog is committed,
   and the key of the single order ends in "-1-1" *)
ExampleFoodsAndKey ==
    /\ pc \in OrderStagePcs =>
          /\ Len(foods_by_seller) = 1
          /\ Len(foods_by_seller[1].rows) = 2
          /\ Len(db.foods) = 2
          /\ \A k \in 1..2 : db.foods[k].sellerId = sellers[1].user_id
    /\ \A x \in orderKeys : x.b = 0 /\ x.o = 0
    /\ \A k \in 1..Len(requests) :
          LET key == requests[k].idempotencyKey
          IN SubSeq(key, Len(key) - 3, Len(key)) = <<"-", "1", "-", "1">>

(* every item of every request of the example run is a food of the seller, with a
   quantity in 1..3 *)
ExampleItems(counts) ==
    \A k \in 1..Len(requests) :
       /\ Len(requests[k].items) \in counts
       /\ IsInjective([ j \in 1..Len(requests[k].items) |-> requests[k].items[j].foodId ])
       /\ \A j \in 1..Len(requests[k].items) :
             /\ requests[k].items[j].quantity \in 1..3
             /\ \E f \in 1..2 : foods_by_seller[1].rows[f].id = requests[k].items[j].foodId

(* C15, as stated: in the example run the seller gets exactly 2 foods, the single
   order references exactly one of them with a quantity in 1..3, and the order's
   idempotency key ends in "-1-1". *)
C15_ExampleOneFood == ExampleRun => (ExampleFoodsAndKey /\ ExampleItems({1}))

(* C15, amended: in the example run the seller gets exactly 2 foods, the single
   order references one or two of them, pairwise distinct, each with a quantity
   in 1..3, and the order's idempotency key ends in "-1-1". *)
C15_ExampleOneOrTwoFoods == ExampleRun => (ExampleFoodsAndKey /\ ExampleItems({1, 2}))

(* the single order of the example run went out with both foods of the seller *)
C15_Witness ==
    /\ ExampleRun
    /\ pc = "order_response"
    /\ Len(requests) = 1
    /\ Len(requests[1].items) = 2

(* the items of an order request: at least 1 and at most 3, pairwise distinct
   foods, each of the catalog of the seller the request names, quantities in 1..3 *)
ItemsWellFormed(req) ==
    /\ Len(req.items) \in 1..3
    /\ IsInjective([ j \in 1..Len(req.items) |-> req.items[j].foodId ])
    /\ \A j \in 1..Len(req.items) :
          /\ req.items[j].quantity \in 1..3
          /\ \E f \in 1..Len(FoodsOf(req.sellerId)) :
                /\ FoodsOf(req.sellerId)[f].id = req.items[j].foodId
                /\ FoodsOf(req.sellerId)[f].sellerId = req.sellerId

(* C16: every order request submitted in a run contains at least 1 and at most 3
   items, the items reference pairwise distinct foods of the catalog of the seller
   named in the request, and every quantity is in 1..3, for every value of the
   foods-per-seller count. *)
C16_ItemsWellFormed == \A k \in 1..Len(requests) : ItemsWellFormed(requests[k])

(* what holds: the same, for the runs with at least one food per seller *)
C16_ItemsWellFormedWithFoods ==
    args.foods_per_seller >= 1 => \A k \in 1..Len(requests) : ItemsWellFormed(requests[k])

(* the orders in which n sellers can be gone through *)
SellerOrders(n) == { c \in [1..n -> 1..n] : IsInjective(c) }

(* a rotation of the length asked for whose first min(n, orders) entries are
   pairwise distinct sellers *)
RotationSampled(rotation, seller_ids, orders) ==
    /\ Len(rotation) = orders
    /\ \A j \in 1..orders : rotation[j] \in Range(seller_ids)
    /\ IsInjective(SubSeq(rotation, 1, Min(Len(seller_ids), orders)))

(* the entries beyond the first n go through the sellers in turn, in some order *)
RotationCycles(rotation, seller_ids) ==
    LET n == Len(seller_ids)
    IN \E c \in SellerOrders(n) :
          \A j \in (n + 1)..Len(rotation) : rotation[j] = seller_ids[c[((j - n - 1) % n) + 1]]

(* C17, as stated: the rotation has exactly ordersPerBuyer entries, its first
   min(number of sellers, ordersPerBuyer) entries are pairwise distinct sellers,
   and the entries beyond that cycle through the sellers. *)
C17_RotationCycles ==
    derived.drawn =>
        /\ RotationSampled(derived.seller_rotation, derived.seller_ids, derived.orders_per_buyer)
        /\ RotationCycles(derived.seller_rotation, derived.seller_ids)

(* C17, amended: the rotation has exactly ordersPerBuyer entries, its first
   min(number of sellers, ordersPerBuyer) entries are pairwise distinct sellers,
   and every entry beyond that is some seller with foods (drawn independently, so
   a seller may repeat at once); with at least two sellers and two orders the
   buyer's orders go to at least two different sellers. *)
C17_RotationSampledThenAny ==
    derived.drawn =>
        /\ RotationSampled(derived.seller_rotation, derived.seller_ids, derived.orders_per_buyer)
        /\ (Len(derived.seller_ids) >= 2 /\ derived.orders_per_buyer >= 2) =>
               Cardinality(Range(derived.seller_rotation)) >= 2

(* two sellers, four orders: the two entries beyond the sample are the same seller *)
C17_Witness ==
    /\ derived.drawn
    /\ Len(derived.seller_ids) = 2
    /\ Len(derived.seller_rotation) = 4
    /\ derived.seller_rotation[3] = derived.seller_rotation[4]

(* the position of the pair (buyer_idx, order_idx) in the lexicographic order *)
PairNo(b, o) == b * args.orders_per_buyer + o

SentPairs == { PairNo(x.b, x.o) : x \in sentKeys }

(* C18: order submission is strictly sequential.  A request is sent only when none
   is outstanding; the pairs for which a request was sent are the first pairs of
   the lexicographic order of (buyer_idx, order_idx), without a gap; the first
   request of a pair is sent only when every earlier pair returned 201, the
   latest answer being the 201 of the pair before; at most one pair is sent and
   not yet created, the one in progress or the one that failed; and a run that
   failed sends nothing more. *)
C18_OrdersSequential ==
    /\ [](SentPairs = 0..(Cardinality(SentPairs) - 1))
    /\ [](Cardinality(SentPairs) - Len(created_orders) \in {0, 1})
    /\ [](Cardinality(SentPairs) = Len(created_orders) + 1 =>
             (InCreateOrder \/ (pc = "failed" /\ failedAt = "order_response")))
    /\ [][Len(requests') > Len(requests) =>
             (pc = "create_order" /\ pc' = "order_response")]_vars
    /\ [][SentPairs' # SentPairs =>
             /\ pc = "create_order" /\ attempt = 0
             /\ PairNo(buyer_idx, order_idx) = Len(created_orders)
             /\ SentPairs' = SentPairs \cup { Len(created_orders) }
             /\ (Len(created_orders) > 0 => last_status = 201)]_vars
    /\ [][pc # "failed"]_vars

(* the fourth order, the second of the second buyer, failed after three 201s *)
C18_Witness ==
    /\ pc = "failed" /\ failedAt = "order_response"
    /\ buyer_idx = 1 /\ order_idx = 1
    /\ Len(created_orders) = 3
    /\ Cardinality(SentPairs) = 4

(* the positions of main() after seed_categories returned *)
AfterSeedCategoriesPcs == {"backfill_buyers", "backfill_sellers", "seed_foods", "commit"}

(* C19: seed_categories(count) creates exactly count categories with sort_order
   0..count-1, cycling through the 5 templates; the names at index >= 5, and only
   they, carry a numeric suffix; and the names of the categories of one call are
   pairwise distinct, for every count. *)
C19_CategoriesCountedAndDistinct ==
    /\ Len(categories) <= args.categories
    /\ pc \in AfterSeedCategoriesPcs => Len(categories) = args.categories
    /\ (failedAt = "none" /\ pc \in {"seed_categories"} \cup AfterSeedCategoriesPcs) =>
          /\ Len(tx.categories) = Len(categories)
          /\ \A k \in 1..Len(categories) :
                /\ tx.categories[k].sort_order = k - 1
                /\ tx.categories[k].nameTr = categories[k].nameTr
                /\ tx.categories[k].id = categories[k].id
    /\ (failedAt = "none" /\ pc \in {"close", "orders", "summary", "done"}) =>
          /\ Len(db.categories) = args.categories
          /\ \A k \in 1..Len(categories) :
                /\ db.categories[k].sort_order = k - 1
                /\ db.categories[k].nameTr = categories[k].nameTr
    /\ \A k \in 1..Len(categories) :
          /\ categories[k].nameTr.tpl = (k - 1) % 5
          /\ (categories[k].nameTr.suffix # 0) <=> (k - 1 >= 5)
          /\ categories[k].nameTr.suffix # 0 =>
                NameTrText(categories[k].nameTr) =
                   CATEGORY_DEFS[((k - 1) % 5) + 1] \o <<" ">> \o Str(categories[k].nameTr.suffix)
    /\ \A k, l \in 1..Len(categories) :
          NameTrText(categories[k].nameTr) = NameTrText(categories[l].nameTr) => k = l

(* eleven categories: the first template is used a third time *)
C19_Witness ==
    /\ pc = "backfill_buyers"
    /\ Len(categories) = 11
    /\ categories[11].nameTr.tpl = 0
    /\ categories[11].nameTr.suffix # categories[6].nameTr.suffix

(* the foods recorded for the sellers done so far: perSeller foods each, slot j in
   category j mod (number of categories), template (sellerIndex + foodIndex) mod
   templateCount *)
FoodsPlaced ==
    \A s \in 1..Len(foods_by_seller) :
        /\ foods_by_seller[s].seller_id = sellers[s].user_id
        /\ Len(foods_by_seller[s].rows) = args.foods_per_seller
        /\ \A j \in 1..Len(foods_by_seller[s].rows) :
              LET row == foods_by_seller[s].rows[j]
                  category == categories[((j - 1) % Len(categories)) + 1]
              IN /\ row.sellerId = sellers[s].user_id
                 /\ row.categoryId = category.id
                 /\ row.name[1] = category.nameTr.tpl
                 /\ row.name[2] = ((s - 1) + (j - 1)) % 2

(* seed_foods is about to create food slot food_idx of seller seller_idx *)
FoodSlotPending ==
    /\ pc = "seed_foods"
    /\ seller_idx < Len(sellers)
    /\ food_idx < args.foods_per_seller
    /\ Len(categories) >= 1

(* C20: for every list of categories returned by seed_categories (any count >= 1,
   the suffixed categories beyond the first template cycle included) and every
   foods-per-seller count, seed_foods creates exactly perSeller foods for each
   seller, food slot j in category j mod (number of categories), its template at
   position (sellerIndex + foodIndex) mod templateCount: so every pending slot has
   a template list to take its template from, and the foods recorded are placed
   as stated. *)
C20_FoodsPlacedForEveryCategoryList ==
    /\ FoodSlotPending =>
          HasFoodTemplates(categories[(food_idx % Len(categories)) + 1].nameTr)
    /\ FoodsPlaced

(* what holds of seed_foods: the foods it records are placed as stated, and a
   pending slot has a template list whenever its category is one of the first
   five *)
C20_FoodsPlacedInFirstCycle ==
    /\ (FoodSlotPending /\ food_idx % Len(categories) < NumCategoryDefs) =>
          HasFoodTemplates(categories[(food_idx % Len(categories)) + 1].nameTr)
    /\ FoodsPlaced

(* two sellers with six foods each over five categories are done *)
C20_FirstCycleWitness ==
    /\ pc = "commit"
    /\ Len(foods_by_seller) = 2
    /\ args.foods_per_seller = 6
    /\ Len(categories) = 5

(* C21: two different sellers never get the same dish name for a food in the same
   category: for all seller indexes s1 # s2 and all food slots, the food names
   produced by build_food_payload differ. *)
C21_SellersGetDistinctDishNames ==
    (derived.names # <<>> /\ derived.seller_slots[1] # derived.seller_slots[2]) =>
        derived.names[1] # derived.names[2]

(* two sellers whose foods share the template, the slots being 1-11 and 11-1 *)
C21_Witness ==
    /\ derived.names # <<>>
    /\ derived.seller_slots = <<0, 10>>
    /\ derived.food_slots = <<10, 0>>
    /\ FoodNameTextNoSlots(build_food_payload([tpl |-> derived.tpl, suffix |-> 0], 0, 10).name)
         = FoodNameTextNoSlots(build_food_payload([tpl |-> derived.tpl, suffix |-> 0], 10, 0).name)

(* the positions of main() in the two registration loops *)
RegistrationPcs == {"register_buyers", "register_sellers"}

(* C22: if a buyer or seller registration returns a status other than 201,
   register_user raises an error carrying the status and the response body and
   the run aborts at that point: no later registration is attempted, no database
   connection is opened, no order is submitted and no summary is written. *)
C22_RegistrationFailureAborts ==
    /\ [][ (log'.registrations # log.registrations
              /\ last_status' \notin {201, URLError}) =>
             /\ pc' = "failed"
             /\ failedAt' \in RegistrationPcs
             /\ raised' = [ message |-> "register failed", status |-> last_status',
                            body |-> ResponseBody(last_status') ] ]_vars
    /\ [](failedAt \in RegistrationPcs =>
             /\ pc = "failed"
             /\ exit_code = 1
             /\ conn = "none"
             /\ log.statements = 0
             /\ sentKeys = {} /\ srvOrders = <<>> /\ created_orders = <<>>
             /\ summary.file = "absent")
    /\ [][ (failedAt \in RegistrationPcs) =>
             (/\ log' = log
              /\ srvUsers' = srvUsers
              /\ conn' = conn
              /\ sentKeys' = sentKeys
              /\ summary' = summary) ]_vars

(* a seller's registration is answered 400 after a buyer was registered *)
C22_Witness ==
    /\ failedAt = "register_sellers"
    /\ Len(buyers) >= 1
    /\ raised.status = 400
    /\ raised.body = ResponseBody(400)
    /\ log.registrations = Len(buyers) + Len(sellers) + 1

(* C23: every error raised during a run is fatal: after the first failing
   operation the run sends no further HTTP request and makes no further database
   write other than the rollback, and the process ends with a non-zero exit
   status; a run ends with exit status 0 only if the summary was written. *)
C23_ErrorsAreFatal ==
    /\ [][ (failedAt # "none") =>
             (/\ failedAt' = failedAt /\ raised' = raised
              /\ last_status' = last_status
              /\ log' = log
              /\ requests' = requests /\ sentKeys' = sentKeys
              /\ srvUsers' = srvUsers /\ srvOrders' = srvOrders
              /\ db' = db
              /\ (tx' # tx => pc = "rollback" /\ tx' = db)
              /\ summary' = summary) ]_vars
    /\ [](failedAt # "none" => exit_code \in {NoStatus, 1})
    /\ [](pc = "failed" => failedAt # "none" /\ exit_code = 1)
    /\ [](exit_code = 0 => pc = "done" /\ failedAt = "none" /\ summary.file = "written")
    /\ [](exit_code # NoStatus => pc \in {"done", "failed"})
    /\ (failedAt # "none") ~> (pc = "failed" /\ exit_code = 1)

(* the second food insert failed after statements of the batch had been executed *)
C23_Witness ==
    /\ pc = "failed"
    /\ failedAt = "seed_foods"
    /\ exit_code = 1
    /\ log.statements >= 2
    /\ conn = "closed"
    /\ tx = db

(* C24: within one run, the emails and the display names generated for two
   distinct (index, role) pairs never collide, for all buyer and seller counts,
   the counts larger than the 10-name pools, where names repeat, included. *)
C24_IdentitiesDistinct ==
    (derived.out # <<>> /\ derived.users[1] # derived.users[2]) =>
        /\ derived.out[1].email # derived.out[2].email
        /\ derived.out[1].display_name # derived.out[2].display_name

(* the first and the eleventh buyer carry the same name *)
C24_Witness ==
    /\ derived.out # <<>>
    /\ derived.users[1] = [ role |-> "buyer", idx |-> 0 ]
    /\ derived.users[2] = [ role |-> "buyer", idx |-> 10 ]
    /\ derived.out[1].handle = derived.out[2].handle
    /\ derived.seed_id = <<"1", "_", "1">>

(* C25: ensure_user_gps_columns is idempotent: from any schema of the users table
   (columns and range constraints present or absent) calling it twice leaves the
   schema that calling it once leaves, and it never fails because a column or a
   constraint already exists. *)
C25_EnsureGpsIdempotent ==
    /\ ~derived.error
    /\ derived.calls >= 1 =>
          /\ derived.schema = derived.once[1]
          /\ derived.schema = derived.start \cup GpsObjects
    /\ derived.calls = 0 => derived.once = <<>>

(* the second call returned on a table that had one of the columns and none of
   the constraints before the first *)
C25_Witness ==
    /\ derived.calls = 2
    /\ derived.start = {"email", "latitude"}
    /\ derived.schema = derived.once[1]

(* C26: the sequence of order requests of a run (for each (buyerIndex,
   orderIndex): the chosen seller, the chosen foods, the quantities and the
   idempotency key) is the same whatever number of 429 responses the server
   returns: two runs with the same seed and counts that differ only in how many
   rate-limit responses they receive submit identical orders, retries consuming
   no random draw. *)
C26_OrdersIndependentOfRateLimits ==
    /\ \A k \in 1..Min(Len(derived.runs[1].submitted), Len(derived.runs[2].submitted)) :
          derived.runs[1].submitted[k] = derived.runs[2].submitted[k]
    /\ \A r \in 1..2 :
          \A k \in 1..Len(derived.runs[r].submitted) :
             LET order == derived.runs[r].submitted[k]
             IN /\ order.b * derived.orders_per_buyer + order.o + 1 = k
                /\ order.sellerId \in 1..derived.sellers
                /\ Len(order.items) \in 1..Min(derived.foods_per_seller, MaxItemDraw)
                /\ \A j \in 1..Len(order.items) :
                      /\ order.items[j].quantity \in 1..MaxQuantity
                      /\ \E f \in 1..derived.foods_per_seller :
                            order.items[j].foodId = <<"food", order.sellerId, f>>
                      /\ \A l \in 1..Len(order.items) :
                            order.items[l].foodId = order.items[j].foodId => l = j

(* both runs placed every order, one never rate limited, the other rate limited
   on an order before the last, whose items were drawn after the retry *)
C26_Witness ==
    /\ derived.runs[1].pc = "done" /\ derived.runs[2].pc = "done"
    /\ derived.runs[1].retries = 0
    /\ derived.runs[2].retries = 1
    /\ Len(derived.runs[2].submitted) >= 2
    /\ Len(derived.runs[2].submitted[2].items) = 2

(* the users of a type the server registered *)
Registered(user_type) == { u \in srvUsers : u.user_type = user_type }

(* C27: on every run that writes the summary its counts match what was created:
   counts.buyers and counts.sellers are the numbers of successful registrations,
   counts.categories is the requested category count, counts.foods is sellers x
   foodsPerSeller, counts.orders is buyers x ordersPerBuyer, and every entry of
   ordersCreated names a buyer of buyersCreated and a seller of sellersCreated. *)
C27_SummaryCountsMatch ==
    summary.file = "written" =>
        /\ summary.counts.buyers = Cardinality(Registered("buyer"))
        /\ summary.counts.sellers = Cardinality(Registered("seller"))
        /\ summary.counts.buyers = args.buyers
        /\ summary.counts.sellers = args.sellers
        /\ summary.counts.categories = args.categories
        /\ summary.counts.categories = Len(db.categories)
        /\ summary.counts.foods = args.sellers * args.foods_per_seller
        /\ summary.counts.foods = Len(db.foods)
        /\ summary.counts.orders = args.buyers * args.orders_per_buyer
        /\ summary.counts.orders = Len(srvOrders)
        /\ \A k \in 1..Len(created_orders) :
              /\ \E b \in 1..Len(buyers) : buyers[b].user_id = created_orders[k].buyerId
              /\ \E l \in 1..Len(sellers) : sellers[l].user_id = created_orders[k].sellerId

(* a summary of a run with two foods of one seller and more than one order *)
C27_Witness ==
    /\ summary.file = "written"
    /\ summary.counts.sellers = 1
    /\ summary.counts.foods = 2
    /\ summary.counts.orders >= 2
    /\ summary.counts.categories = 2

(* the positions of main() between open_db and the end of the finally clause *)
ConnectionPcs == {"ensure_gps", "seed_categories", "backfill_buyers", "backfill_sellers",
                  "seed_foods", "commit", "rollback", "close"}

(* C28: the database connection is opened only after every registration
   succeeded, and it is closed on every path (commit, or rollback after a
   failure) before the first order request is sent; no database statement is
   executed while an HTTP request of the run is outstanding. *)
C28_ConnectionBetweenStages ==
    /\ [](conn # "none" =>
             /\ Len(buyers) = args.buyers /\ Len(sellers) = args.sellers
             /\ log.registrations = args.buyers + args.sellers
             /\ Cardinality(srvUsers) = args.buyers + args.sellers
             /\ failedAt \notin {"admin_login", "register_buyers", "register_sellers", "open_db"})
    /\ [](conn = "open" <=> pc \in ConnectionPcs)
    /\ []((sentKeys # {} \/ requests # <<>> \/ pc \in {"create_order", "order_response"}) =>
             conn = "closed")
    /\ [][ (conn = "open" /\ conn' # "open") =>
             (conn' = "closed" /\ (tx = db \/ failedAt # "none")) ]_vars
    /\ [][ (pc = "order_response") =>
             (log'.statements = log.statements /\ tx' = tx /\ db' = db /\ conn' = conn) ]_vars
    /\ [][ (log'.statements # log.statements \/ tx' # tx \/ db' # db) =>
             (conn = "open" /\ requests = <<>>) ]_vars

(* an order request is outstanding after a committed batch *)
C28_Witness ==
    /\ pc = "order_response"
    /\ conn = "closed"
    /\ log.statements > 0
    /\ Len(db.foods) >= 1

(* C29: in the agent HTTP runner a GET on /health, /healthz or / is answered 200
   if and only if the child process has been started and has not exited at the
   time of handling, and 503 otherwise; any other path is answered 404. *)
C29_HealthIffChildRunning ==
    derived.last # NoResponse =>
        IF derived.last.path \in HealthPaths
           THEN /\ derived.last.status \in {200, 503}
                /\ derived.last.status = 200 <=> derived.last.child = "running"
           ELSE derived.last.status = 404

(* C29 as it holds: the answer is 200 if and only if, at the time of handling,
   the child thread has stored the started child in child_proc and the child has
   not exited, and 503 otherwise, which includes a request handled while the
   child is already running but child_proc is still None; any other path is
   answered 404. *)
C29_HealthIffChildProcRunning ==
    derived.last # NoResponse =>
        IF derived.last.path \in HealthPaths
           THEN /\ derived.last.status \in {200, 503}
                /\ derived.last.status = 200 <=>
                      (derived.last.child_proc # "None" /\ derived.last.child = "running")
           ELSE derived.last.status = 404

(* a health request was handled after Popen had started the child and before
   the child thread stored it in child_proc *)
C29_Witness ==
    /\ derived.last.path = "/health"
    /\ derived.last.status = 503
    /\ derived.last.child_proc = "None"
    /\ derived.last.child = "running"

(* C30: in the agent HTTP runner, once the child process exits or a SIGTERM or
   SIGINT is received, the serving loop eventually ends and the HTTP server is
   closed, even if no further HTTP request arrives after that moment; and a
   signal terminates the child only if it is still running. *)
C30_ExitOrSignalEndsServing ==
    /\ (derived.child = "exited" \/ derived.signals > 0) ~> (derived.main = "exited")
    /\ [](derived.terminate_calls \subseteq {"running"})

(* what holds of the loop: terminate() is only called on a running child, and
   the loop is only left with stop_event set *)
C30_TerminateOnlyRunningChild ==
    /\ derived.terminate_calls \subseteq {"running"}
    /\ derived.main \in {"server_close", "exited"} => derived.stop_event

(* the main thread is blocked in handle_request() with stop_event set after a
   signal that terminated the running child, and no request is waiting *)
C30_BlockedWitness ==
    /\ derived.main = "handle_request"
    /\ derived.stop_event
    /\ derived.inbox = <<>>
    /\ derived.signals = 1
    /\ derived.terminate_calls = {"running"}
    /\ derived.child = "exited"
    /\ derived.thread = "ended"

(* the requests of the invocation that change something on the server *)
Mutations == SelectSeq(derived.sent, LAMBDA r : r.method # "GET")

(* --app names an application of the list: by uuid, or by a name that exactly
   one application has, whatever the case *)
SelectorResolves ==
    \/ \E k \in 1..Len(derived.apps) : derived.apps[k].uuid = derived.selector
    \/ Cardinality({ k \in 1..Len(derived.apps) :
                       lower(derived.apps[k].name) = lower(derived.selector) }) = 1

(* the entries of the returned env list whose key is --key whatever the case *)
KeyMatches == { k \in 1..Len(derived.envs) : lower(derived.envs[k].key) = lower(derived.key) }

SomeMatchHasUuid == \E k \in KeyMatches : derived.envs[k].uuid # ""

FirstMatchHasUuid ==
    \E k \in KeyMatches : derived.envs[k].uuid # "" /\ \A j \in KeyMatches : k <= j

SetEnvFinished == derived.pc \in {"done", "error"}

(* only updates of one of the targets: PATCH first, PUT only after a failed
   PATCH, an error only when both failed, never a create *)
UpdatesOnly(targets) ==
    /\ Len(Mutations) <= 2
    /\ \A k \in 1..Len(Mutations) :
          /\ Mutations[k].method = UpdateMethods[k]
          /\ Mutations[k].env \in targets
          /\ k > 1 => Mutations[k - 1].outcome = "RuntimeError"
    /\ SetEnvFinished =>
          /\ Mutations # <<>>
          /\ derived.rc = 1 <=>
                (Len(Mutations) = 2 /\ \A k \in 1..2 : Mutations[k].outcome = "RuntimeError")
          /\ derived.rc = 0 => derived.action = "updated"

(* exactly one create and no update *)
OneCreate ==
    /\ Len(Mutations) <= 1
    /\ \A k \in 1..Len(Mutations) : Mutations[k].method = "POST"
    /\ SetEnvFinished =>
          /\ Len(Mutations) = 1
          /\ derived.rc = 0 <=> Mutations[1].outcome = "ok"
          /\ derived.rc = 0 => derived.action = "created"

(* C31: in the Coolify CLI, set-env issues exactly one kind of mutation per
   invocation: if the application already has an env var whose key matches
   case-insensitively (and has a uuid) it is updated (PATCH first, PUT attempted
   only if PATCH failed, error only if both fail) and no create is sent;
   otherwise exactly one create is sent; and when the application selector is
   not found or the name is ambiguous, no mutating request is sent at all. *)
C31_SetEnvUpdatesAnyMatchWithUuid ==
    /\ ~SelectorResolves => Mutations = <<>>
    /\ derived.listed =>
          IF SomeMatchHasUuid
             THEN UpdatesOnly({ derived.envs[k].uuid : k \in KeyMatches } \ {""})
             ELSE OneCreate

(* C31 as it holds: the env var that decides is the first entry of the returned
   env list whose key matches case-insensitively; if it has a uuid it is updated
   (PATCH first, PUT only if PATCH failed, error only if both fail) and no
   create is sent; if no entry matches or the first match has no uuid, even when
   a later match has one, exactly one create is sent; and when the application
   selector is not found or the name is ambiguous, no mutating request is sent. *)
C31_SetEnvUpdatesFirstMatchWithUuid ==
    /\ ~SelectorResolves => Mutations = <<>>
    /\ derived.listed =>
          IF FirstMatchHasUuid
             THEN UpdatesOnly({ derived.envs[k].uuid :
                                  k \in { m \in KeyMatches : \A j \in KeyMatches : m <= j } })
             ELSE OneCreate

(* an env var whose key differs from --key in case only was updated by the PUT
   that followed a failed PATCH *)
C31_Witness ==
    /\ derived.pc = "done"
    /\ derived.action = "updated"
    /\ derived.key = <<"D", "B">>
    /\ derived.existing = [key |-> <<"d", "b">>, uuid |-> "e2"]
    /\ Len(Mutations) = 2
    /\ Mutations[2] = Sent("PUT", derived.app_uuid, "e2", "ok")

====
